---- MODULE Spec2Model ----
(***************************************************************************)
(* A model of the tool-invocation pipeline of cato-mcp-server: argument    *)
(* normalization (src/src/index.ts), the GraphQL executor and its envelope *)
(* validation (src/unnamed/part_007), and the response-reshaping helpers   *)
(* of the metrics tools (metricsUtils.ts, the top-consumer tools, the      *)
(* site-summary grouping).                                                 *)
(***************************************************************************)
EXTENDS Integers, Sequences, FiniteSets, TLC

VARIABLES
    catoMcpToolWrappers, \* tools.ts:9      the registry: tool name -> wrapper
    pc,                  \* position of the CallTool handler / of the function under study
    toolName,            \* index.ts:59     request.params.name
    toolArguments,       \* index.ts:61     request.params.arguments
    effectiveArgs,       \* index.ts:162    variablesWithOverrides, as returned by normalization
    graphqlVariables,    \* index.ts:67     variables sent downstream
    stages,              \* the pipeline stages this invocation has entered, in order
    errorLog,            \* part_007:114 / index.ts:82   messages logged at level error
    content,             \* index.ts:73-91  what the handler returned to the caller
    reply,               \* part_007:83    the Response the endpoint answered with
    requests,            \* part_007:53    the requests this invocation sent downstream
    handlerResult,       \* part_007:99    what the response handler returned
    maxResponseLength,   \* part_007:16    set once at startup
    pending,             \* the invocations suspended at the await of index.ts:70
    call,                \* arguments of the library function under study
    ret                  \* its return value

vars == <<catoMcpToolWrappers, pc, toolName, toolArguments, effectiveArgs,
          graphqlVariables, stages, errorLog, content, reply, requests, handlerResult,
          maxResponseLength, pending, call, ret>>

(***************************************************************************)
(* JavaScript values.  Every value is a record with the same three fields, *)
(* so that any two of them can be compared: t is the type tag, v the text  *)
(* (characters of a string; the canonical JSON text of an array or an      *)
(* object), n the number.                                                  *)
(***************************************************************************)
Undefined == [t |-> "undefined", v |-> <<>>, n |-> 0]
Null      == [t |-> "null", v |-> <<>>, n |-> 0]
Num(k)    == [t |-> "number", v |-> <<>>, n |-> k]
Bool(b)   == [t |-> "boolean", v |-> <<>>, n |-> IF b THEN 1 ELSE 0]
Str(s)    == [t |-> "string", v |-> s, n |-> 0]
Arr(s)    == [t |-> "array", v |-> s, n |-> 0]
Obj(s)    == [t |-> "object", v |-> s, n |-> 0]

\* A plain object (Record<string, any>): a function from its own keys to values.
EmptyObject == [k \in {} |-> Undefined]

\* o[k] in JavaScript: undefined when k is not an own key.
Get(o, k) == IF k \in DOMAIN o THEN o[k] ELSE Undefined

\* o[k] = x in JavaScript: adds or overwrites the key.
Put(o, k, x) == [j \in DOMAIN o \cup {k} |-> IF j = k THEN x ELSE o[j]]

\* !x in JavaScript.
Falsy(x) ==
    \/ x.t \in {"undefined", "null"}
    \/ x.t = "number" /\ x.n = 0
    \/ x.t = "boolean" /\ x.n = 0
    \/ x.t = "string" /\ x.v = <<>>

(***************************************************************************)
(* Strings and JSON.parse.  Strings are sequences of characters over       *)
(* Chars; over this alphabet the JSON texts are the nested arrays and      *)
(* empty objects, with optional blanks between the tokens.                 *)
(***************************************************************************)
MaxStrLen == 3

Chars == {"[", "]", "{", "}", " "}

Strings == UNION {[1..len -> Chars] : len \in 0..MaxStrLen}

RECURSIVE TrimStart(_)
TrimStart(s) ==
    IF s # <<>> /\ Head(s) = " " THEN TrimStart(Tail(s)) ELSE s

RECURSIVE TrimEnd(_)
TrimEnd(s) ==
    IF s # <<>> /\ s[Len(s)] = " " THEN TrimEnd(SubSeq(s, 1, Len(s) - 1)) ELSE s

\* String.prototype.trim
Trim(s) == TrimEnd(TrimStart(s))

\* String.prototype.startsWith, for a one-character prefix
StartsWith(s, c) == s # <<>> /\ Head(s) = c

\* position of the first non-blank character of s at or after i
RECURSIVE SkipBlanks(_, _)
SkipBlanks(s, i) ==
    IF i <= Len(s) /\ s[i] = " " THEN SkipBlanks(s, i + 1) ELSE i

\* Recursive-descent recognizer: the position after the JSON value that
\* starts at the first non-blank character at or after i, or 0 when there
\* is none (a SyntaxError).
RECURSIVE ParseValue(_, _)
ParseValue(s, i) ==
    LET j == SkipBlanks(s, i) IN
    IF j > Len(s) THEN 0
    ELSE IF s[j] = "{" THEN
        LET k == SkipBlanks(s, j + 1) IN
        IF k <= Len(s) /\ s[k] = "}" THEN k + 1 ELSE 0
    ELSE IF s[j] = "[" THEN
        LET k == SkipBlanks(s, j + 1) IN
        IF k <= Len(s) /\ s[k] = "]" THEN k + 1
        ELSE LET e == ParseValue(s, k) IN
             IF e = 0 THEN 0
             ELSE LET m == SkipBlanks(s, e) IN
                  IF m <= Len(s) /\ s[m] = "]" THEN m + 1 ELSE 0
    ELSE 0

\* the text has exactly one JSON value, blanks around it allowed
IsValidJson(s) ==
    LET e == ParseValue(s, 1) IN e # 0 /\ SkipBlanks(s, e) > Len(s)

\* the tokens of s, blanks dropped: the canonical text of the parsed value
StripBlanks(s) == SelectSeq(s, LAMBDA c : c # " ")

\* JSON.parse of a valid text: the parsed structure
JsonParse(s) ==
    LET canon == StripBlanks(s) IN
    IF Head(canon) = "[" THEN Arr(canon) ELSE Obj(canon)

(***************************************************************************)
(* Errors.  A thrown Error is a record of the parts its message is built   *)
(* from; a function that can throw returns [threw, error, value].          *)
(***************************************************************************)
NoError == [msg |-> "", tool |-> "", arg |-> "", value |-> Undefined,
            status |-> 0, detail |-> <<>>]

Return(x) == [threw |-> FALSE, error |-> NoError, value |-> x]

Throw(e) == [threw |-> TRUE, error |-> e, value |-> EmptyObject]

\* a TypeError raised by the runtime
TypeError(message) == [NoError EXCEPT !.msg = "TypeError", !.detail = <<message>>]

(***************************************************************************)
(* The registry (src/src/tools/tools.ts) and the tool descriptors.         *)
(* A schema is the function from its property names to their declared      *)
(* default, undefined when the property declares none.                     *)
(***************************************************************************)
DEFAULT_TIMEFRAME == Str(<<"last.P1D">>)

DEFAULT_TOP_N == 5

DEFAULT_BUCKETS == 24

\* CATO_ACCOUNT_ID, read once at startup (index.ts:178-180)
accountId == Str(<<"1234567">>)

buildTopSiteBandwidthConsumersTool(ctx) ==
    [properties |-> [accountID |-> ctx, timeFrame |-> DEFAULT_TIMEFRAME,
                     siteIDs |-> Undefined, topN |-> Num(DEFAULT_TOP_N),
                     groupInterfaces |-> Bool(TRUE)],
     gqlQuery |-> "topSiteBandwidthConsumers",
     inputHandler |-> "topSites",
     responseHandler |-> "topSites"]

buildTopUsersBandwidthConsumersTool(ctx) ==
    [properties |-> [accountID |-> ctx, timeFrame |-> DEFAULT_TIMEFRAME,
                     userIDs |-> Undefined, topN |-> Num(DEFAULT_TOP_N),
                     groupInterfaces |-> Bool(TRUE)],
     gqlQuery |-> "topUsersBandwidthConsumers",
     inputHandler |-> "topUsers",
     responseHandler |-> "topUsers"]

buildSitesByLocationTool(ctx) ==
    [properties |-> [accountID |-> ctx],
     gqlQuery |-> "sitesByLocation",
     inputHandler |-> "none",
     responseHandler |-> "sitesByLocation"]

\* user_metrics (UserMetricsTool.ts:10-66)
buildUserMetricsTool(ctx) ==
    [properties |-> [accountID |-> ctx, timeFrame |-> DEFAULT_TIMEFRAME,
                     userIDs |-> Undefined],
     gqlQuery |-> "userMetrics",
     inputHandler |-> "userMetrics",
     responseHandler |-> "userMetrics"]

\* user_metrics_timeseries (UserMetricsTimeseriesTool.ts:14-102)
buildUserMetricsTimeseriesTool(ctx) ==
    [properties |-> [accountID |-> ctx, timeFrame |-> DEFAULT_TIMEFRAME,
                     buckets |-> Num(DEFAULT_BUCKETS),
                     timeseries |-> Arr(<<"[", "bytesTotal", "]">>),
                     userIDs |-> Undefined, perSecond |-> Bool(FALSE),
                     aggregationFunction |-> Str(<<"sum">>)],
     gqlQuery |-> "userMetricsTimeseries",
     inputHandler |-> "userMetricsTimeseries",
     responseHandler |-> "userMetricsTimeseries"]

\* the registry after startup: tools.forEach(tool => map.set(tool.toolDef.name, tool))
initCatoMcpToolWrappers(ctx) ==
    [top_site_bandwidth_consumers |-> buildTopSiteBandwidthConsumersTool(ctx),
     top_users_bandwidth_consumers |-> buildTopUsersBandwidthConsumersTool(ctx),
     sites_by_location |-> buildSitesByLocationTool(ctx),
     user_metrics |-> buildUserMetricsTool(ctx),
     user_metrics_timeseries |-> buildUserMetricsTimeseriesTool(ctx)]

\* findMcpTool: the wrapper, or a thrown `Tool <name> not found`
findMcpTool(registry, name) ==
    IF name \in DOMAIN registry
    THEN Return(registry[name])
    ELSE Throw([NoError EXCEPT !.msg = "Tool not found", !.tool = name])

(***************************************************************************)
(* Argument normalization (src/src/index.ts:101-170).                      *)
(***************************************************************************)
\* mutant: copies every schema property, declared default or not
extractToolDefaultValues_EveryProperty(registry, name) ==
    registry[name].properties

\* extractToolDefaultValues: the properties whose default is not undefined
extractToolDefaultValues(registry, name) ==
    LET toolProperties == registry[name].properties IN
    [propName \in {p \in DOMAIN toolProperties : toolProperties[p] # Undefined}
        |-> toolProperties[propName]]

\* mutant: null counts as a provided value
IsProvided_NullOverrides(argValue) == argValue # Undefined

\* the guard of the override loop (index.ts:136)
IsProvided(argValue) == argValue # Undefined /\ argValue # Null

\* mutant: the argument is assigned as given, never parsed
ParsedArgument_NeverParsed(name, argName, argValue) == Return(argValue)

\* mutant: a parse failure is swallowed and the raw string assigned
ParsedArgument_FailureSwallowed(name, argName, argValue) ==
    IF /\ argValue.t = "string"
       /\ \/ StartsWith(Trim(argValue.v), "{")
          \/ StartsWith(Trim(argValue.v), "[")
       /\ IsValidJson(argValue.v)
    THEN Return(JsonParse(argValue.v))
    ELSE Return(argValue)

\* the value assigned for one provided argument (index.ts:137-145)
ParsedArgument(name, argName, argValue) ==
    IF /\ argValue.t = "string"
       /\ \/ StartsWith(Trim(argValue.v), "{")
          \/ StartsWith(Trim(argValue.v), "[")
    THEN IF IsValidJson(argValue.v)
         THEN Return(JsonParse(argValue.v))
         ELSE Throw([NoError EXCEPT !.msg = "Error parsing tool argument",
                                    !.tool = name, !.arg = argName,
                                    !.value = argValue,
                                    !.detail = <<"SyntaxError">>])
    ELSE Return(argValue)

\* the for..in loop of llmProvidedVariablesOverride from entry i on
RECURSIVE OverrideFrom(_, _, _, _)
OverrideFrom(variables, name, entries, i) ==
    IF i > Len(entries) THEN Return(variables)
    ELSE LET argName == entries[i].name
             argValue == entries[i].value
         IN  IF IsProvided(argValue)
             THEN LET parsed == ParsedArgument(name, argName, argValue) IN
                  IF parsed.threw THEN parsed
                  ELSE OverrideFrom(Put(variables, argName, parsed.value),
                                    name, entries, i + 1)
             ELSE OverrideFrom(variables, name, entries, i + 1)

\* llmProvidedVariablesOverride: a copy of the defaults, overridden by the
\* provided arguments that are neither undefined nor null
llmProvidedVariablesOverride(variablesDefaultValues, name, mcpToolRequestArguments) ==
    IF mcpToolRequestArguments.given
    THEN OverrideFrom(variablesDefaultValues, name, mcpToolRequestArguments.entries, 1)
    ELSE Return(variablesDefaultValues)

\* mutant: an empty list counts as no filter and is replaced by null
standardizeMetricsInput_EmptyListIsNoFilter(variables) ==
    LET Missing(x) == Falsy(x) \/ (x.t = "array" /\ x.v = <<"[", "]">>)
        v1 == IF Missing(Get(variables, "siteIDs"))
              THEN Put(variables, "siteIDs", Null) ELSE variables
        v2 == IF Missing(Get(v1, "userIDs")) THEN Put(v1, "userIDs", Null) ELSE v1
    IN  IF Missing(Get(v2, "annotationTypes"))
        THEN Put(v2, "annotationTypes", Null) ELSE v2

\* standardizeMetricsInput (metricsUtils.ts:34-45)
standardizeMetricsInput(variables) ==
    LET v1 == IF Falsy(Get(variables, "siteIDs"))
              THEN Put(variables, "siteIDs", Null) ELSE variables
        v2 == IF Falsy(Get(v1, "userIDs")) THEN Put(v1, "userIDs", Null) ELSE v1
    IN  IF Falsy(Get(v2, "annotationTypes"))
        THEN Put(v2, "annotationTypes", Null) ELSE v2

\* x.length === 0: an empty array (an empty string is falsy before that)
HasLengthZero(x) == x.t = "array" /\ x.v = <<"[", "]">>

\* the instruction the guards on userIDs end their message with
USE_ENTITY_LOOKUP_FIRST ==
    "Please use entity_lookup tool first:\n1. Call entity_lookup with type='vpnUser' to find user IDs"

\* the instruction the guard on timeseries ends its message with
SPECIFY_TIMESERIES ==
    "Please specify which metrics you want timeseries data for (e.g., ['bytesTotal', 'rtt', 'lostDownstreamPcnt'])"

\* mutant: only a missing userIDs is refused, an empty list goes through
userMetricsHandleInput_EmptyListPasses(variables) ==
    IF Falsy(Get(variables, "userIDs"))
    THEN Throw([NoError EXCEPT !.msg = "UserIDs are required for metrics analysis",
                               !.detail = <<USE_ENTITY_LOOKUP_FIRST>>])
    ELSE Return(standardizeMetricsInput(
             Put(Put(variables, "groupInterfaces", Bool(TRUE)), "groupDevices", Bool(TRUE))))

\* handleInput of user_metrics (UserMetricsTool.ts:68-77)
userMetricsHandleInput(variables) ==
    IF Falsy(Get(variables, "userIDs")) \/ HasLengthZero(Get(variables, "userIDs"))
    THEN Throw([NoError EXCEPT !.msg = "UserIDs are required for metrics analysis",
                               !.detail = <<USE_ENTITY_LOOKUP_FIRST>>])
    ELSE Return(standardizeMetricsInput(
             Put(Put(variables, "groupInterfaces", Bool(TRUE)), "groupDevices", Bool(TRUE))))

\* handleInput of user_metrics_timeseries (UserMetricsTimeseriesTool.ts:104-118)
userMetricsTimeseriesHandleInput(variables) ==
    IF Falsy(Get(variables, "userIDs")) \/ HasLengthZero(Get(variables, "userIDs"))
    THEN Throw([NoError EXCEPT !.msg = "UserIDs are required for timeseries analysis",
                               !.detail = <<USE_ENTITY_LOOKUP_FIRST>>])
    ELSE IF Falsy(Get(variables, "timeseries")) \/ HasLengthZero(Get(variables, "timeseries"))
    THEN Throw([NoError EXCEPT !.msg = "Timeseries metrics are required",
                               !.detail = <<SPECIFY_TIMESERIES>>])
    ELSE Return(standardizeMetricsInput(
             Put(Put(variables, "groupInterfaces", Bool(TRUE)), "groupDevices", Bool(TRUE))))

\* mutant: the flag is a default, a value the caller gave is kept
topUsersHandleInput_CallerFlagKept(variables) ==
    Return(standardizeMetricsInput(
        IF "groupDevices" \in DOMAIN variables THEN variables
        ELSE Put(variables, "groupDevices", Bool(TRUE))))

\* handleInput of top_users_bandwidth_consumers (topUsersBandwidthConsumersTool.ts:73-76)
topUsersHandleInput(variables) ==
    Return(standardizeMetricsInput(Put(variables, "groupDevices", Bool(TRUE))))

\* the tools' input handlers
\*   topSites: topSiteBandwidthConsumersTool.ts:65-67
inputHandler(kind, variables) ==
    IF kind = "userMetrics" THEN userMetricsHandleInput(variables)
    ELSE IF kind = "userMetricsTimeseries" THEN userMetricsTimeseriesHandleInput(variables)
    ELSE IF kind = "topUsers" THEN topUsersHandleInput(variables)
    ELSE Return(standardizeMetricsInput(variables))

\* prepareGraphqlVariables: defaults, overrides, then the optional input handler.
\* `normalized` is variablesWithOverrides as normalization returned it.
prepareGraphqlVariables(registry, name, mcpToolRequestArguments, handlerKind) ==
    LET variablesDefaultValues == extractToolDefaultValues(registry, name)
        variablesWithOverrides ==
            llmProvidedVariablesOverride(variablesDefaultValues, name,
                                         mcpToolRequestArguments)
    IN  IF variablesWithOverrides.threw
        THEN [threw |-> TRUE, error |-> variablesWithOverrides.error,
              value |-> EmptyObject, normalized |-> EmptyObject,
              stages |-> <<"normalize">>]
        ELSE IF handlerKind = "none"
        THEN [threw |-> FALSE, error |-> NoError,
              value |-> variablesWithOverrides.value,
              normalized |-> variablesWithOverrides.value,
              stages |-> <<"normalize">>]
        ELSE LET handledVariables == inputHandler(handlerKind, variablesWithOverrides.value)
             IN  [threw |-> handledVariables.threw, error |-> handledVariables.error,
                  value |-> handledVariables.value,
                  normalized |-> variablesWithOverrides.value,
                  stages |-> <<"normalize", "inputTransform">>]

(***************************************************************************)
(* The CallTool request handler (src/src/index.ts:58-93), up to its only   *)
(* suspension point, the await of the downstream reply.                    *)
(***************************************************************************)
\* mutant: the request is sent twice
executeGraphqlRequest_Twice(gqlQuery, variables) ==
    <<[query |-> gqlQuery, variables |-> variables],
      [query |-> gqlQuery, variables |-> variables]>>

\* executeGraphqlRequest up to its await (part_007:49-53): the requests it
\* sends, one fetch of the query with the variables
executeGraphqlRequest(gqlQuery, variables) ==
    <<[query |-> gqlQuery, variables |-> variables]>>

\* no response handler has returned
NoResult == [kind |-> "none"]

DEFAULT_MAX_RESPONSE_LENGTH == 200000

MAX_RESPONSE_LENGTH_EXCEEDED_MESSAGE ==
    "You should answer the user's question as best as you can based on this truncated data. \nIn your final answer, you have to tell that: the answer may be partial because the data returned exceeded the context window. Here is the truncated data: "

\* mutant: a text of exactly the maximum length is truncated too
Truncate_AtTheMaximum(responseText, max) ==
    IF Len(responseText) >= max
    THEN MAX_RESPONSE_LENGTH_EXCEEDED_MESSAGE \o SubSeq(responseText, 1, max)
    ELSE responseText

\* part_007:102-106: responseText.substring(0, max) behind the message when
\* the text is longer than max
Truncate(responseText, max) ==
    IF Len(responseText) > max
    THEN MAX_RESPONSE_LENGTH_EXCEEDED_MESSAGE \o SubSeq(responseText, 1, max)
    ELSE responseText

NoContent == [isError |-> FALSE, error |-> NoError, text |-> <<>>]

\* mutant: the payload of the catch block carries no message
ErrorContent_NoMessage(e) == [isError |-> TRUE, error |-> NoError, text |-> <<>>]

\* the catch block: the error's message as the returned payload
ErrorContent(e) == [isError |-> TRUE, error |-> e, text |-> <<>>]

CallTool(name, arguments) ==
    /\ pc = "idle"
    /\ toolName' = name
    /\ toolArguments' = arguments
    /\ LET tool == findMcpTool(catoMcpToolWrappers, name) IN
       IF tool.threw
       THEN /\ pc' = "done"
            /\ stages' = <<"lookup">>
            /\ content' = ErrorContent(tool.error)
            /\ errorLog' = Append(errorLog, tool.error)
            /\ UNCHANGED <<effectiveArgs, graphqlVariables, requests>>
       ELSE LET prepared == prepareGraphqlVariables(catoMcpToolWrappers, name,
                                                    arguments, tool.value.inputHandler)
            IN  /\ effectiveArgs' = prepared.normalized
                /\ IF prepared.threw
                   THEN /\ pc' = "done"
                        /\ stages' = <<"lookup">> \o prepared.stages
                        /\ content' = ErrorContent(prepared.error)
                        /\ errorLog' = Append(errorLog, prepared.error)
                        /\ UNCHANGED <<graphqlVariables, requests>>
                   ELSE /\ pc' = "awaiting"
                        /\ stages' = <<"lookup">> \o prepared.stages \o <<"fetch">>
                        /\ graphqlVariables' = prepared.value
                        /\ requests' = requests \o
                               executeGraphqlRequest(tool.value.gqlQuery, prepared.value)
                        /\ UNCHANGED <<content, errorLog>>
    /\ UNCHANGED <<catoMcpToolWrappers, reply, handlerResult, maxResponseLength, pending, call, ret>>

(***************************************************************************)
(* The downstream reply.  A reply has a status and a body; a JSON body is  *)
(* the envelope {data, errors}.  data maps the query's top-level fields to *)
(* null or to an object that may hold the collections sites and users.     *)
(***************************************************************************)
\* an entity of a collection (a site or a user) with its optional attributes
NoMetrics == [present |-> FALSE, bytesUpstream |-> Undefined, bytesDownstream |-> Undefined]

NoInfo == [present |-> FALSE, countryName |-> Undefined, countryStateName |-> Undefined,
           cityName |-> Undefined]

\* an entity of a metrics reply
Entity(id, name, up, down) ==
    [id |-> id, name |-> name,
     metrics |-> [present |-> TRUE, bytesUpstream |-> up, bytesDownstream |-> down],
     popName |-> Undefined, info |-> NoInfo]

\* a site of a snapshot reply
SiteAt(id, popName, countryName, countryStateName, cityName) ==
    [id |-> id, name |-> id, metrics |-> NoMetrics, popName |-> popName,
     info |-> [present |-> TRUE, countryName |-> countryName,
               countryStateName |-> countryStateName, cityName |-> cityName]]

NoCollection == [t |-> "undefined", items |-> <<>>]

Collection(items) == [t |-> "array", items |-> items]

\* a collection field that holds an object where the list is expected
NotAList == [t |-> "object", items |-> <<>>]

\* a collection field is truthy when it holds an array or an object
Truthy(collection) == collection.t \in {"array", "object"}

NullRoot == [t |-> "null", from |-> "", to |-> "", timestamp |-> "",
             sites |-> NoCollection, users |-> NoCollection]

Root(sites, users) ==
    [t |-> "object", from |-> "t0", to |-> "t1", timestamp |-> "t2",
     sites |-> sites, users |-> users]

NoData == [t |-> "undefined", fields |-> EmptyObject]

NullData == [t |-> "null", fields |-> EmptyObject]

Data(fields) == [t |-> "object", fields |-> fields]

NoErrors == [t |-> "undefined", messages |-> <<>>]

NullErrors == [t |-> "null", messages |-> <<>>]

Errors(messages) == [t |-> "array", messages |-> messages]

\* the body of a reply: { data, errors }
Envelope(data, errors) == [data |-> data, errors |-> errors]

\* a reply with a success status and a JSON body
JsonReply(body) == [ok |-> TRUE, status |-> 200, json |-> TRUE, text |-> "", body |-> body]

\* no reply received
NoReply == [ok |-> FALSE, status |-> 0, json |-> FALSE, text |-> "",
            body |-> Envelope(NoData, NoErrors)]

\* response.data?.accountMetrics (also accountSnapshot): null and undefined
\* both read as absent
RootOf(response, field) ==
    IF response.data.t = "object" /\ field \in DOMAIN response.data.fields
    THEN response.data.fields[field]
    ELSE NullRoot

(***************************************************************************)
(* Top-N ranking (topSiteBandwidthConsumersTool.ts:89-133,                 *)
(* topUsersBandwidthConsumersTool.ts:97-144).  The formatted byte strings  *)
(* of a ranked entry are not modelled; its numbers are.                    *)
(***************************************************************************)
\* x || 0 for a numeric field
OrZero(x) == IF Falsy(x) THEN 0 ELSE x.n

\* calculateBytesTotal (metricsUtils.ts:48-50)
calculateBytesTotal(bytesUpstream, bytesDownstream) == bytesUpstream + bytesDownstream

\* consumer.metrics?.bytesUpstream
MetricOf(consumer, field) ==
    IF consumer.metrics.present THEN consumer.metrics[field] ELSE Undefined

\* the entry built for one consumer by the map callback; `index` is its
\* position in the input (the sites tool reads the name from info first)
RankedEntry(consumer, index) ==
    [id |-> consumer.id, name |-> consumer.name, index |-> index,
     totalBytes |-> calculateBytesTotal(OrZero(MetricOf(consumer, "bytesUpstream")),
                                        OrZero(MetricOf(consumer, "bytesDownstream"))),
     upload |-> OrZero(MetricOf(consumer, "bytesUpstream")),
     download |-> OrZero(MetricOf(consumer, "bytesDownstream"))]

MapRanked(consumers) == [i \in 1..Len(consumers) |-> RankedEntry(consumers[i], i)]

\* mutant: ascending order
ComesBefore_Ascending(a, b) == a.totalBytes <= b.totalBytes

\* a stays before b under the comparator (a, b) => b.totalBytes - a.totalBytes:
\* the result is not positive
ComesBefore(a, b) == b.totalBytes - a.totalBytes <= 0

\* Array.prototype.sort is stable: an element is inserted after every element
\* already placed that compares before or equal to it
RECURSIVE InsertSorted(_, _)
InsertSorted(sorted, x) ==
    IF sorted = <<>> THEN <<x>>
    ELSE IF ComesBefore(Head(sorted), x)
    THEN <<Head(sorted)>> \o InsertSorted(Tail(sorted), x)
    ELSE <<x>> \o sorted

RECURSIVE SortDescending(_, _)
SortDescending(items, n) ==
    IF n = 0 THEN <<>> ELSE InsertSorted(SortDescending(items, n - 1), items[n])

\* ToIntegerOrInfinity of the end argument of slice
ToInteger(x) == IF x.t \in {"number", "boolean"} THEN x.n ELSE 0

\* the end position of Array.prototype.slice(0, end) on an array of length len
SliceEnd(len, end) ==
    LET k == ToInteger(end) IN
    IF k < 0 THEN (IF len + k > 0 THEN len + k ELSE 0)
    ELSE IF k < len THEN k ELSE len

\* Array.prototype.slice(0, end)
Slice(items, end) == SubSeq(items, 1, SliceEnd(Len(items), end))

\* variables.topN || DEFAULT_TOP_N
EffectiveTopN(variables) ==
    IF Falsy(Get(variables, "topN")) THEN Num(DEFAULT_TOP_N) ELSE variables["topN"]

\* emptyMetricsResponse (metricsUtils.ts:173-183)
emptyMetricsResponse(accountMetrics) ==
    [kind |-> "empty", from |-> accountMetrics.from, to |-> accountMetrics.to,
     sites |-> <<>>]

\* the validity check of the sites tools: metricsUtils.ts has it as
\* isValidMetricResponse (163-171), true when the sites collection is there
isValidSiteMetricResponse(response) ==
    /\ RootOf(response, "accountMetrics").t = "object"
    /\ Truthy(RootOf(response, "accountMetrics").sites)

\* its counterpart for the users collection, which metricsUtils.ts does not
\* have: by the specification a reply is valid when the expected collection
\* is present
isValidUserMetricResponse(response) ==
    /\ RootOf(response, "accountMetrics").t = "object"
    /\ Truthy(RootOf(response, "accountMetrics").users)

TopConsumers(consumerType, accountMetrics, analyzed, rankedConsumers) ==
    [kind |-> "topConsumers", consumerType |-> consumerType,
     from |-> accountMetrics.from, to |-> accountMetrics.to,
     showingTop |-> Len(rankedConsumers), analyzed |-> analyzed,
     topConsumers |-> rankedConsumers]

\* topSiteBandwidthConsumersTool.ts:103-117: map, sort, slice
RankSites(consumers, topN) ==
    LET mapped == MapRanked(consumers)
    IN  Slice(SortDescending(mapped, Len(mapped)), topN)

\* handleResponse of top_site_bandwidth_consumers
topSitesHandleResponse(variables, response) ==
    LET accountMetrics == RootOf(response, "accountMetrics") IN
    IF ~isValidSiteMetricResponse(response)
    THEN Return(emptyMetricsResponse(accountMetrics))
    ELSE IF ~Truthy(accountMetrics.sites)
    THEN Return(emptyMetricsResponse(accountMetrics))
    ELSE IF accountMetrics.sites.t # "array"
    THEN Throw(TypeError("consumers.map is not a function"))
    ELSE Return(TopConsumers("sites", accountMetrics, Len(accountMetrics.sites.items),
                    RankSites(accountMetrics.sites.items, EffectiveTopN(variables))))

\* the filter of the users ranking (topUsersBandwidthConsumersTool.ts:125)
HasTraffic(consumer) == consumer.totalBytes > 0

\* topUsersBandwidthConsumersTool.ts:111-127: map, filter, sort, slice
RankUsers(consumers, topN) ==
    LET mapped == SelectSeq(MapRanked(consumers), HasTraffic)
    IN  Slice(SortDescending(mapped, Len(mapped)), topN)

\* handleResponse of top_users_bandwidth_consumers
topUsersHandleResponse(variables, response) ==
    LET accountMetrics == RootOf(response, "accountMetrics") IN
    IF ~isValidUserMetricResponse(response)
    THEN Return(emptyMetricsResponse(accountMetrics))
    ELSE IF ~Truthy(accountMetrics.users)
    THEN Return(emptyMetricsResponse(accountMetrics))
    ELSE IF accountMetrics.users.t # "array"
    THEN Throw(TypeError("consumers.map is not a function"))
    ELSE Return(TopConsumers("users", accountMetrics, Len(accountMetrics.users.items),
                    RankUsers(accountMetrics.users.items, EffectiveTopN(variables))))

(***************************************************************************)
(* sites_by_location (sitesByLocationTool.ts:81-122).  A map of counts is  *)
(* a function from the key's text to the count.                            *)
(***************************************************************************)
\* map[key] || 0
CountOf(map, key) == IF key \in DOMAIN map THEN map[key] ELSE 0

buildLocationString(site) ==
    IF ~site.info.present \/ Falsy(site.info.countryName) THEN <<"Unknown">>
    ELSE LET withState ==
                 IF ~Falsy(site.info.countryStateName)
                 THEN site.info.countryName.v \o <<".">> \o site.info.countryStateName.v
                 ELSE site.info.countryName.v
         IN  IF ~Falsy(site.info.cityName)
             THEN withState \o <<".">> \o site.info.cityName.v
             ELSE withState

\* site.popName || "Unknown"
PopNameOf(site) == IF Falsy(site.popName) THEN <<"Unknown">> ELSE site.popName.v

\* the own keys of a map in the order of their first assignment
RECURSIVE FirstKeys(_, _)
FirstKeys(keys, seen) ==
    IF keys = <<>> THEN seen
    ELSE IF \E k \in 1..Len(seen) : seen[k] = Head(keys)
    THEN FirstKeys(Tail(keys), seen)
    ELSE FirstKeys(Tail(keys), Append(seen, Head(keys)))

\* the for..of loop of handleResponse from site i on
RECURSIVE CountSites(_, _, _, _)
CountSites(allSites, i, sitesCountByPopName, sitesCountByLocation) ==
    IF i > Len(allSites)
    THEN [sitesCountByPopName |-> sitesCountByPopName,
          sitesCountByLocation |-> sitesCountByLocation]
    ELSE LET site == allSites[i]
             popName == PopNameOf(site)
             byPopName == Put(sitesCountByPopName, popName,
                              CountOf(sitesCountByPopName, popName) + 1)
             location == buildLocationString(site)
         IN  CountSites(allSites, i + 1, byPopName,
                        Put(sitesCountByLocation, location,
                            CountOf(byPopName, location) + 1))

\* isValidResponse (siteUtils.ts:4-12)
isValidResponse(response) ==
    /\ RootOf(response, "accountSnapshot").t = "object"
    /\ Truthy(RootOf(response, "accountSnapshot").sites)

\* emptySitesResponse (siteUtils.ts:14-21)
emptySitesResponse(timestamp) ==
    [kind |-> "emptySites", accountSnapshotTimestamp |-> timestamp, sites |-> <<>>]

sitesByLocationHandleResponse(variables, response) ==
    LET accountSnapshot == RootOf(response, "accountSnapshot") IN
    IF ~isValidResponse(response)
    THEN Return(emptySitesResponse(accountSnapshot.timestamp))
    ELSE IF accountSnapshot.sites.t # "array"
    THEN Throw(TypeError("allSites is not iterable"))
    ELSE LET counts == CountSites(accountSnapshot.sites.items, 1, EmptyObject, EmptyObject)
         IN  Return([kind |-> "sitesByLocation",
                     accountSnapshotTimestamp |-> accountSnapshot.timestamp,
                     totalSitesCount |-> Len(accountSnapshot.sites.items),
                     popNameKeys |-> FirstKeys(
                         [i \in 1..Len(accountSnapshot.sites.items) |->
                             PopNameOf(accountSnapshot.sites.items[i])], <<>>),
                     locationKeys |-> FirstKeys(
                         [i \in 1..Len(accountSnapshot.sites.items) |->
                             buildLocationString(accountSnapshot.sites.items[i])], <<>>),
                     sitesCountByPopName |-> counts.sitesCountByPopName,
                     sitesCountByLocation |-> counts.sitesCountByLocation])

\* processUserData (UserMetricsTool.ts:146-165); the interfaces of a user
\* are not modelled
processUserData(accountMetrics) ==
    LET users == IF accountMetrics.users.t = "array"
                 THEN accountMetrics.users.items ELSE <<>>
    IN  [i \in 1..Len(users) |->
            [userId |-> users[i].id, userName |-> users[i].name,
             metrics |-> users[i].metrics]]

\* handleResponse of user_metrics (UserMetricsTool.ts:167-193)
userMetricsHandleResponse(variables, response) ==
    LET accountMetrics == RootOf(response, "accountMetrics") IN
    IF ~isValidUserMetricResponse(response)
    THEN Return(emptyMetricsResponse(accountMetrics))
    ELSE IF accountMetrics.users.t = "object"
    THEN Throw(TypeError("accountMetrics.users is not iterable"))
    ELSE LET users == processUserData(accountMetrics)
         IN  Return([kind |-> "userMetrics", from |-> accountMetrics.from,
                     to |-> accountMetrics.to, usersReturned |-> Len(users),
                     usersWithMetrics |->
                         Cardinality({i \in 1..Len(users) : users[i].metrics.present}),
                     users |-> users])

\* tool.responseHandler, for the tools whose replies are modelled
responseHandler(kind, variables, response) ==
    IF kind = "topSites" THEN topSitesHandleResponse(variables, response)
    ELSE IF kind = "userMetrics" THEN userMetricsHandleResponse(variables, response)
    ELSE IF kind = "topUsers" THEN topUsersHandleResponse(variables, response)
    ELSE sitesByLocationHandleResponse(variables, response)

(***************************************************************************)
(* JSON.stringify(result, null, 0) (part_007:101) of the results above:    *)
(* the modelled properties in the order the handlers write them; a         *)
(* property that is undefined is left out.                                 *)
(***************************************************************************)
Digits == <<"0", "1", "2", "3", "4", "5", "6", "7", "8", "9">>

\* String(n) of a natural number
RECURSIVE NumberToString(_)
NumberToString(n) ==
    IF n < 10 THEN Digits[n + 1] ELSE NumberToString(n \div 10) \o Digits[(n % 10) + 1]

RECURSIVE TextOf(_)
TextOf(chars) == IF chars = <<>> THEN "" ELSE Head(chars) \o TextOf(Tail(chars))

Quote(text) == "\"" \o text \o "\""

\* "key":value
Member(key, value) == Quote(key) \o ":" \o value

\* the texts joined by commas
RECURSIVE Commas(_)
Commas(texts) ==
    IF texts = <<>> THEN ""
    ELSE IF Len(texts) = 1 THEN texts[1]
    ELSE texts[1] \o "," \o Commas(Tail(texts))

\* {members}, the members that are undefined (here "") left out
IsMember(text) == text # ""

JsonObject(members) == "{" \o Commas(SelectSeq(members, IsMember)) \o "}"

JsonArray(elements) == "[" \o Commas(elements) \o "]"

\* a string property that may be undefined
StringMember(key, text) == IF text = "" THEN "" ELSE Member(key, Quote(text))

TimeFrameText(r) ==
    Member("timeFrame", JsonObject(<<StringMember("from", r.from), StringMember("to", r.to)>>))

RankedEntryText(entry) ==
    JsonObject(<<StringMember("id", entry.id), StringMember("name", entry.name),
                 Member("totalBytes", NumberToString(entry.totalBytes))>>)

\* a map of counts, its keys in the order given
CountsText(map, keys) ==
    JsonObject([k \in 1..Len(keys) |-> Member(TextOf(keys[k]), NumberToString(map[keys[k]]))])

NumberMember(key, value) ==
    IF value.t = "number" THEN Member(key, NumberToString(value.n)) ELSE ""

UserText(user) ==
    JsonObject(<<StringMember("userId", user.userId), StringMember("userName", user.userName),
                 Member("metrics",
                        JsonObject(<<NumberMember("bytesUpstream", user.metrics.bytesUpstream),
                                     NumberMember("bytesDownstream", user.metrics.bytesDownstream)>>)),
                 Member("interfaces", "[]")>>)

Stringify(r) ==
    JsonObject(<<Member("data",
      IF r.kind = "empty"
      THEN JsonObject(<<TimeFrameText(r), Member("sites", "[]")>>)
      ELSE IF r.kind = "emptySites"
      THEN JsonObject(<<StringMember("accountSnapshotTimestamp", r.accountSnapshotTimestamp),
                        Member("sites", "[]")>>)
      ELSE IF r.kind = "topConsumers"
      THEN JsonObject(<<TimeFrameText(r),
                        Member("summary",
                               JsonObject(<<Member("consumerType", Quote(r.consumerType)),
                                            Member("showingTop", NumberToString(r.showingTop))>>)),
                        Member("topConsumers",
                               JsonArray([k \in 1..Len(r.topConsumers) |->
                                             RankedEntryText(r.topConsumers[k])]))>>)
      ELSE IF r.kind = "sitesByLocation"
      THEN JsonObject(<<StringMember("accountSnapshotTimestamp", r.accountSnapshotTimestamp),
                        Member("totalSitesCount", NumberToString(r.totalSitesCount)),
                        Member("sitesCountByPopName",
                               CountsText(r.sitesCountByPopName, r.popNameKeys)),
                        Member("sitesCountByLocation",
                               CountsText(r.sitesCountByLocation, r.locationKeys))>>)
      ELSE JsonObject(<<TimeFrameText(r),
                        Member("summary",
                               JsonObject(<<Member("usersReturned", NumberToString(r.usersReturned)),
                                            Member("usersWithMetrics",
                                                   NumberToString(r.usersWithMetrics))>>)),
                        Member("users",
                               JsonArray([k \in 1..Len(r.users) |-> UserText(r.users[k])]))>>))>>)

(***************************************************************************)
(* The executor's handling of the reply (src/unnamed/part_007:83-123).     *)
(***************************************************************************)
\* Object.values(result.data).every(value => value === null)
EveryValueNull(data) == \A f \in DOMAIN data.fields : data.fields[f].t = "null"

\* the condition of part_007:118
Unusable(result) == result.data.t # "object" \/ EveryValueNull(result.data)

\* result.errors && result.errors.length > 0
HasErrors(result) == result.errors.t = "array" /\ result.errors.messages # <<>>

\* messages.join(', ')
RECURSIVE Join(_)
Join(messages) ==
    IF messages = <<>> THEN ""
    ELSE IF Len(messages) = 1 THEN messages[1]
    ELSE messages[1] \o ", " \o Join(Tail(messages))

\* mutant: an unusable envelope passes validation
validateGraphqlResponseBody_NeverThrows(result) == Return(EmptyObject)

\* validateGraphqlResponseBody: throws on an unusable envelope.  The message
\* is built by result.errors.map(...).join(', '), a TypeError when the
\* envelope has no errors list.
validateGraphqlResponseBody(result) ==
    IF Unusable(result)
    THEN IF result.errors.t = "array"
         THEN Throw([NoError EXCEPT !.msg = "GraphQL errors",
                                    !.detail = <<Join(result.errors.messages)>>])
         ELSE Throw([NoError EXCEPT !.msg = "TypeError",
                                    !.detail = <<"Cannot read properties (reading 'map')">>])
    ELSE Return(EmptyObject)

\* mutant: the errors of the envelope are not logged
ValidationLog_Silent(result) == <<>>

\* what validation logs at level error before it decides (part_007:113-115)
ValidationLog(result) ==
    IF HasErrors(result)
    THEN <<[NoError EXCEPT !.msg = "GraphQL response errors",
                           !.detail = result.errors.messages]>>
    ELSE <<>>

\* handleGraphqlResponse: [threw, error, value, result, stages, logged]
handleGraphqlResponse(variables, response, handlerKind, max) ==
    LET failed(error, ran, logged) ==
            [threw |-> TRUE, error |-> error, value |-> "", result |-> NoResult,
             stages |-> ran, logged |-> logged]
    IN
    IF ~response.ok
    THEN failed([NoError EXCEPT !.msg = "GraphQL request failed with status",
                                !.status = response.status,
                                !.detail = <<response.text>>], <<>>, <<>>)
    ELSE IF ~response.json
    THEN failed([NoError EXCEPT !.msg = "SyntaxError", !.detail = <<response.text>>],
                <<>>, <<>>)
    ELSE LET result == response.body
             validated == validateGraphqlResponseBody(result)
             transformed == responseHandler(handlerKind, variables, result)
         IN  IF validated.threw
             THEN failed(validated.error, <<"validate">>, ValidationLog(result))
             ELSE IF transformed.threw
             THEN failed(transformed.error, <<"validate", "responseTransform">>,
                         ValidationLog(result))
             ELSE [threw |-> FALSE, error |-> NoError,
                   value |-> Truncate(Stringify(transformed.value), max),
                   result |-> transformed.value,
                   stages |-> <<"validate", "responseTransform", "serialize">>,
                   logged |-> ValidationLog(result)]

\* the handler resumes with the reply of the endpoint
FetchResolve(response) ==
    /\ pc = "awaiting"
    /\ LET handled == handleGraphqlResponse(graphqlVariables, response,
                          catoMcpToolWrappers[toolName].responseHandler,
                          maxResponseLength)
       IN  /\ stages' = stages \o handled.stages
           /\ IF handled.threw
              THEN /\ content' = ErrorContent(handled.error)
                   /\ errorLog' = errorLog \o handled.logged \o <<handled.error>>
                   /\ handlerResult' = NoResult
              ELSE /\ content' = [isError |-> FALSE, error |-> NoError,
                                  text |-> <<handled.value>>]
                   /\ errorLog' = errorLog \o handled.logged
                   /\ handlerResult' = handled.result
    /\ pc' = "done"
    /\ reply' = response
    /\ UNCHANGED <<catoMcpToolWrappers, toolName, toolArguments, effectiveArgs,
                   graphqlVariables, requests, maxResponseLength, pending, call, ret>>

\* the handler resumes with fetch rejected (no reply)
FetchReject ==
    /\ pc = "awaiting"
    /\ pc' = "done"
    /\ content' = ErrorContent([NoError EXCEPT !.msg = "fetch failed"])
    /\ errorLog' = Append(errorLog, [NoError EXCEPT !.msg = "fetch failed"])
    /\ UNCHANGED <<catoMcpToolWrappers, toolName, toolArguments, effectiveArgs,
                   graphqlVariables, stages, reply, requests, handlerResult,
                   maxResponseLength, pending, call, ret>>

\* the invocation is over; the server waits for the next request
NextRequest ==
    /\ pc = "done"
    /\ pc' = "idle"
    /\ toolName' = ""
    /\ toolArguments' = [given |-> FALSE, entries |-> <<>>]
    /\ effectiveArgs' = EmptyObject
    /\ graphqlVariables' = EmptyObject
    /\ stages' = <<>>
    /\ errorLog' = <<>>
    /\ content' = NoContent
    /\ reply' = NoReply
    /\ requests' = <<>>
    /\ handlerResult' = NoResult
    /\ UNCHANGED <<catoMcpToolWrappers, maxResponseLength, pending, call, ret>>

(***************************************************************************)
(* Requests.  The caller's payload is absent, or an object whose entries   *)
(* are listed in insertion order (the order of the for..in loop).          *)
(***************************************************************************)
NoArguments == [given |-> FALSE, entries |-> <<>>]

\* marks a key the payload does not have
Absent == [t |-> "absent", v |-> <<>>, n |-> 0]

\* the orders in which the keys `names` can have been inserted
KeyOrders(names) ==
    {o \in [1..Cardinality(names) -> names] :
        \A a, b \in 1..Cardinality(names) : o[a] = o[b] => a = b}

\* the payload that holds, in the order `order`, the keys f does not map to Absent
Payload(order, f) ==
    [given |-> TRUE,
     entries |-> SelectSeq([i \in 1..Len(order) |-> [name |-> order[i], value |-> f[order[i]]]],
                           LAMBDA e : e.value # Absent)]

RequestNames == {"top_site_bandwidth_consumers", "top_users_bandwidth_consumers", "user_metrics",
                 "sites_by_location", "no_such_tool"}

ArgNames == {"timeFrame", "userIDs"}

\* what a caller can give for a key: any string over Chars, or one of the
\* other kinds of value
CallerValues ==
    {Undefined, Null, Num(7), Bool(FALSE), Arr(<<"[", "]">>)} \cup {Str(s) : s \in Strings}

\* the values tried for the second key of a payload
FewCallerValues ==
    {Undefined, Null, Num(7), Arr(<<"[", "]">>),
     Str(<<"[", "]">>), Str(<<"{">>), Str(<<"]">>)}

\* the values tried for each key
ValuesOf ==
    [timeFrame |-> CallerValues \cup {Absent}, userIDs |-> FewCallerValues \cup {Absent}]

\* the server after main(), no invocation in progress
Started ==
    /\ catoMcpToolWrappers = initCatoMcpToolWrappers(accountId)
    /\ toolName = ""
    /\ toolArguments = NoArguments
    /\ effectiveArgs = EmptyObject
    /\ graphqlVariables = EmptyObject
    /\ stages = <<>>
    /\ errorLog = <<>>
    /\ content = NoContent
    /\ reply = NoReply
    /\ requests = <<>>
    /\ handlerResult = NoResult
    /\ maxResponseLength = DEFAULT_MAX_RESPONSE_LENGTH
    /\ pending = {}

Init ==
    /\ Started
    /\ pc = "idle"
    /\ call = EmptyObject
    /\ ret = EmptyObject

\* a request for any tool name, with no payload or a payload over ArgNames
CallToolAnyArguments ==
    /\ pc = "idle"
    /\ \E name \in RequestNames :
          \/ CallTool(name, NoArguments)
          \/ \E order \in KeyOrders(ArgNames),
                timeFrame \in ValuesOf.timeFrame, userIDs \in ValuesOf.userIDs :
                CallTool(name, Payload(order, [timeFrame |-> timeFrame, userIDs |-> userIDs]))

(***************************************************************************)
(* Replies.                                                                *)
(***************************************************************************)
SampleSites ==
    {<<>>,
     <<Entity("a", "A", Num(100), Num(50))>>,
     <<Entity("c", "C", Num(0), Num(0)), Entity("a", "A", Num(100), Num(50))>>,
     <<SiteAt("s1", Str(<<"NYC">>), Str(<<"US">>), Str(<<"NY">>), Undefined),
       SiteAt("s2", Undefined, Undefined, Undefined, Undefined)>>}

SampleUsers ==
    {<<>>,
     <<Entity("u", "U", Undefined, Num(5)), Entity("z", "Z", Num(0), Undefined)>>}

SampleRoots ==
    {NullRoot} \cup
    {Root(sites, users) :
        sites \in {NoCollection, NotAList} \cup {Collection(x) : x \in SampleSites},
        users \in {NoCollection, NotAList} \cup {Collection(x) : x \in SampleUsers}}

FieldNames == {"accountMetrics", "accountSnapshot"}

SampleData ==
    {NoData, NullData} \cup
    UNION {{Data(f) : f \in [D -> SampleRoots]} : D \in SUBSET FieldNames}

SampleErrors ==
    {NoErrors, NullErrors, Errors(<<>>), Errors(<<"m1">>), Errors(<<"m1", "m2">>)}

OtherReplies ==
    {[ok |-> FALSE, status |-> 500, json |-> FALSE, text |-> "Internal Server Error",
      body |-> Envelope(NoData, NoErrors)],
     [ok |-> FALSE, status |-> 401, json |-> TRUE, text |-> "{}",
      body |-> Envelope(NoData, NoErrors)],
     [ok |-> TRUE, status |-> 200, json |-> FALSE, text |-> "<html>",
      body |-> Envelope(NoData, NoErrors)]}

\* the payloads of the requests of Spec
SampleArguments ==
    {NoArguments,
     [given |-> TRUE, entries |-> <<[name |-> "topN", value |-> Num(1)]>>],
     [given |-> TRUE, entries |-> <<[name |-> "topN", value |-> Null],
                                    [name |-> "userIDs", value |-> Str(<<"[", "]">>)]>>],
     [given |-> TRUE, entries |-> <<[name |-> "timeFrame", value |-> Str(<<"{">>)]>>],
     [given |-> TRUE, entries |-> <<[name |-> "userIDs",
                                     value |-> Arr(<<"[", "u1", "]">>)]>>]}

CallToolSample ==
    /\ pc = "idle"
    /\ \E name \in RequestNames, arguments \in SampleArguments : CallTool(name, arguments)

FetchResolveAny ==
    /\ pc = "awaiting"
    /\ \/ \E data \in SampleData, errors \in SampleErrors :
             FetchResolve(JsonReply(Envelope(data, errors)))
       \/ \E response \in OtherReplies : FetchResolve(response)

Next ==
    \/ CallToolSample
    \/ FetchResolveAny
    \/ FetchReject
    \/ NextRequest

Spec == Init /\ [][Next]_vars

NextNormalize == CallToolAnyArguments

SpecNormalize == Init /\ [][NextNormalize]_vars

(***************************************************************************)
(* Properties of argument normalization (checked under SpecNormalize).     *)
(***************************************************************************)
KnownTool == toolName \in DOMAIN catoMcpToolWrappers

\* the schema of the invoked tool
Schema == catoMcpToolWrappers[toolName].properties

DeclaredDefaults == {p \in DOMAIN Schema : Schema[p] # Undefined}

\* the string looks like a JSON literal: /^\s*[\{\[]/
LooksLikeJson(x) ==
    x.t = "string" /\ Trim(x.v) # <<>> /\ Head(Trim(x.v)) \in {"{", "["}

\* the entries of the payload that make normalization fail
BadEntries ==
    {i \in 1..Len(toolArguments.entries) :
        LET x == toolArguments.entries[i].value IN
        x \notin {Undefined, Null} /\ LooksLikeJson(x) /\ ~IsValidJson(x.v)}

\* the handler has normalized the arguments of a registered tool
Normalized == pc # "idle" /\ KnownTool /\ BadEntries = {}

\* C1: with an empty or absent payload the effective arguments are exactly
\* the schema properties that declare a default, each mapped to that default.
C1_EmptyPayloadYieldsDefaults ==
    (Normalized /\ toolArguments.entries = <<>>) =>
        /\ DOMAIN effectiveArgs = DeclaredDefaults
        /\ \A p \in DeclaredDefaults : effectiveArgs[p] = Schema[p]

C1_Witness ==
    /\ pc = "awaiting"
    /\ toolName = "top_users_bandwidth_consumers"
    /\ toolArguments.given /\ toolArguments.entries = <<>>
    /\ DOMAIN effectiveArgs = {"accountID", "timeFrame", "topN", "groupInterfaces"}
    /\ effectiveArgs["topN"] = Num(5)

\* C2: a null or undefined caller value for an argument with a declared
\* default leaves the declared default in the effective arguments.
C2_NullKeepsDefault ==
    Normalized =>
        \A i \in 1..Len(toolArguments.entries) :
            LET e == toolArguments.entries[i] IN
            (e.value \in {Null, Undefined} /\ e.name \in DeclaredDefaults) =>
                /\ e.name \in DOMAIN effectiveArgs
                /\ effectiveArgs[e.name] = Schema[e.name]

C2_Witness ==
    /\ pc = "awaiting"
    /\ toolName = "top_site_bandwidth_consumers"
    /\ toolArguments.entries =
          <<[name |-> "userIDs", value |-> Arr(<<"[", "]">>)],
            [name |-> "timeFrame", value |-> Null]>>
    /\ effectiveArgs["timeFrame"] = DEFAULT_TIMEFRAME

\* what the caller's value v becomes: the parsed structure (its text without
\* blanks, an array when it opens with a bracket, else an object) for a
\* JSON-looking string, the value itself otherwise
IsCallersValue(result, x) ==
    IF LooksLikeJson(x)
    THEN /\ result.t = (IF Head(Trim(x.v)) = "[" THEN "array" ELSE "object")
         /\ result.v = SelectSeq(x.v, LAMBDA c : c # " ")
         /\ result # x
    ELSE result = x

\* C3: every caller key whose value is neither null nor undefined maps to the
\* caller's value (parsed when it is a JSON-looking string), whether or not
\* the schema declares the key or a default for it.
C3_CallerValueOverrides ==
    Normalized =>
        \A i \in 1..Len(toolArguments.entries) :
            LET e == toolArguments.entries[i] IN
            e.value \notin {Null, Undefined} =>
                /\ e.name \in DOMAIN effectiveArgs
                /\ IsCallersValue(effectiveArgs[e.name], e.value)

C3_Witness ==
    /\ pc = "awaiting"
    /\ toolName = "top_site_bandwidth_consumers"
    /\ toolArguments.entries =
          <<[name |-> "timeFrame", value |-> Str(<<" ", "[", "]">>)],
            [name |-> "userIDs", value |-> Str(<<"]">>)]>>
    /\ effectiveArgs["timeFrame"] = Arr(<<"[", "]">>)
    /\ effectiveArgs["userIDs"] = Str(<<"]">>)
    /\ "userIDs" \notin DOMAIN Schema

\* the first entry, in payload order, that fails to parse
FirstBadEntry ==
    toolArguments.entries[CHOOSE i \in BadEntries : \A j \in BadEntries : i <= j]

\* C4: a JSON-looking string that is not valid JSON makes the invocation end
\* with an error payload naming the tool, the argument and the raw value; no
\* argument set is sent downstream.
C4_InvalidJsonFails ==
    (pc # "idle" /\ KnownTool /\ BadEntries # {}) =>
        /\ pc = "done"
        /\ content.isError
        /\ content.error.msg = "Error parsing tool argument"
        /\ content.error.tool = toolName
        /\ content.error.arg = FirstBadEntry.name
        /\ content.error.value = FirstBadEntry.value
        /\ graphqlVariables = EmptyObject
        /\ \A k \in 1..Len(stages) : stages[k] \notin {"inputTransform", "fetch"}

C4_Witness ==
    /\ pc = "done"
    /\ toolName = "sites_by_location"
    /\ toolArguments.entries =
          <<[name |-> "userIDs", value |-> Str(<<"[", "]">>)],
            [name |-> "timeFrame", value |-> Str(<<"{", "]">>)]>>
    /\ content.isError
    /\ content.error.arg = "timeFrame"

(***************************************************************************)
(* calculateSummary (metricsUtils.ts:72-100).  A point is (timestamp,      *)
(* value).  A timestamp is epoch milliseconds, written as whole seconds    *)
(* and the milliseconds left, because epoch milliseconds of a real date    *)
(* exceed the integers of the model checker.  avg is the exact quotient    *)
(* num/den.                                                                *)
(***************************************************************************)
Timestamp(seconds, millis) == [s |-> seconds, ms |-> millis]

Point(timestamp, value) == [timestamp |-> timestamp, value |-> value]

NoPoints == [t |-> "undefined", items |-> <<>>]

Points(items) == [t |-> "array", items |-> items]

\* String(n).padStart(width, '0')
RECURSIVE PadStart(_, _)
PadStart(n, width) ==
    IF width = 0 THEN "" ELSE PadStart(n \div 10, width - 1) \o Digits[(n % 10) + 1]

\* the civil date of a day number counted from 1970-01-01 (Gregorian calendar)
DateFromDay(day) ==
    LET z == day + 719468
        era == z \div 146097
        doe == z - era * 146097
        yoe == (doe - doe \div 1460 + doe \div 36524 - doe \div 146096) \div 365
        doy == doe - (365 * yoe + yoe \div 4 - yoe \div 100)
        mp == (5 * doy + 2) \div 153
        month == IF mp < 10 THEN mp + 3 ELSE mp - 9
    IN  [year |-> yoe + era * 400 + (IF month <= 2 THEN 1 ELSE 0),
         month |-> month,
         day |-> doy - (153 * mp + 2) \div 5 + 1]

\* new Date(timestamp).toISOString(), for years 1970..9999
toISOString(timestamp) ==
    LET date == DateFromDay(timestamp.s \div 86400)
        secondOfDay == timestamp.s % 86400
    IN  PadStart(date.year, 4) \o "-" \o PadStart(date.month, 2) \o "-"
        \o PadStart(date.day, 2) \o "T" \o PadStart(secondOfDay \div 3600, 2) \o ":"
        \o PadStart((secondOfDay % 3600) \div 60, 2) \o ":"
        \o PadStart(secondOfDay % 60, 2) \o "." \o PadStart(timestamp.ms, 3) \o "Z"

NoTimestamp == "null"

EmptySummary ==
    [min |-> 0, max |-> 0, avg |-> [num |-> 0, den |-> 1],
     peak |-> [value |-> 0, timestamp |-> NoTimestamp]]

\* mutant: negative values survive the filter
Survives_Negatives(val) == val.t = "number"

\* val !== null && val !== undefined && val >= 0
Survives(val) == val.t = "number" /\ val.n >= 0

RECURSIVE MathMin(_)
MathMin(values) ==
    IF Len(values) = 1 THEN Head(values)
    ELSE LET rest == MathMin(Tail(values))
         IN  IF Head(values) < rest THEN Head(values) ELSE rest

RECURSIVE MathMax(_)
MathMax(values) ==
    IF Len(values) = 1 THEN Head(values)
    ELSE LET rest == MathMax(Tail(values))
         IN  IF Head(values) > rest THEN Head(values) ELSE rest

\* values.reduce((sum, val) => sum + val, 0)
RECURSIVE Sum(_)
Sum(values) == IF values = <<>> THEN 0 ELSE Head(values) + Sum(Tail(values))

\* dataPoints.findIndex(point => point[1] === max), counted from 1; 0 for none
FindIndex(dataPoints, max) ==
    LET hits == {i \in 1..Len(dataPoints) : dataPoints[i].value = Num(max)}
    IN  IF hits = {} THEN 0 ELSE CHOOSE i \in hits : \A j \in hits : i <= j

calculateSummary(dataPoints) ==
    IF dataPoints.t # "array" \/ dataPoints.items = <<>> THEN EmptySummary
    ELSE LET kept == SelectSeq(dataPoints.items, LAMBDA point : Survives(point.value))
             values == [i \in 1..Len(kept) |-> kept[i].value.n]
         IN  IF values = <<>> THEN EmptySummary
             ELSE LET max == MathMax(values)
                      maxIndex == FindIndex(dataPoints.items, max)
                  IN  [min |-> MathMin(values),
                       max |-> max,
                       avg |-> [num |-> Sum(values), den |-> Len(values)],
                       peak |-> [value |-> max,
                                 timestamp |->
                                     IF maxIndex >= 1
                                     THEN toISOString(dataPoints.items[maxIndex].timestamp)
                                     ELSE NoTimestamp]]

MaxPoints == 3

SampleTimestamps ==
    {Timestamp(1, 0), Timestamp(2, 0), Timestamp(3, 0), Timestamp(951827696, 789)}

SampleValues == {Null, Num(-1), Num(10), Num(20), Num(30)}

SamplePoints == {Point(timestamp, value) : timestamp \in SampleTimestamps,
                                           value \in SampleValues}

InitSummary ==
    /\ Started
    /\ pc = "called"
    /\ \/ call = NoPoints
       \/ \E len \in 0..MaxPoints : \E items \in [1..len -> SamplePoints] :
             call = Points(items)
    /\ ret = EmptyObject

CallCalculateSummary ==
    /\ pc = "called"
    /\ ret' = calculateSummary(call)
    /\ pc' = "returned"
    /\ UNCHANGED <<catoMcpToolWrappers, toolName, toolArguments, effectiveArgs,
                   graphqlVariables, stages, errorLog, content, reply, requests,
                   handlerResult, maxResponseLength, pending, call>>

SpecSummary == InitSummary /\ [][CallCalculateSummary]_vars

\* the positions of the points whose value is neither null nor negative
KeptPositions ==
    {i \in 1..Len(call.items) : call.items[i].value # Null /\ call.items[i].value.n >= 0}

ExamplePoints ==
    Points(<<Point(Timestamp(1, 0), Num(10)), Point(Timestamp(2, 0), Num(30)),
             Point(Timestamp(3, 0), Num(20))>>)

RECURSIVE SumOver(_)
SumOver(positions) ==
    IF positions = {} THEN 0
    ELSE LET i == CHOOSE i \in positions : TRUE
         IN  call.items[i].value.n + SumOver(positions \ {i})

\* C5: the summary's min, max and avg are those of exactly the non-null,
\* non-negative values; the peak is the max with the ISO-8601 time of the
\* first point that equals it; with no surviving value the summary is
\* {min:0,max:0,avg:0,peak:{value:0,timestamp:null}}; the summary of
\* [[1000,10],[2000,30],[3000,20]] is 10, 30, 20, peak 30 at
\* 1970-01-01T00:00:02.000Z.
C5_SummaryOverSurvivingValues ==
    pc = "returned" =>
        /\ KeptPositions = {} => ret = EmptySummary
        /\ KeptPositions # {} =>
              /\ \E i \in KeptPositions : call.items[i].value.n = ret.min
              /\ \A i \in KeptPositions : ret.min <= call.items[i].value.n
              /\ \E i \in KeptPositions : call.items[i].value.n = ret.max
              /\ \A i \in KeptPositions : call.items[i].value.n <= ret.max
              /\ ret.avg.den > 0
              /\ ret.avg.num * Cardinality(KeptPositions) = SumOver(KeptPositions) * ret.avg.den
              /\ ret.peak.value = ret.max
              /\ \E i \in KeptPositions :
                    /\ call.items[i].value.n = ret.max
                    /\ \A j \in 1..(i - 1) : call.items[j].value # Num(ret.max)
                    /\ ret.peak.timestamp = toISOString(call.items[i].timestamp)
        /\ call = ExamplePoints =>
              /\ ret.min = 10 /\ ret.max = 30
              /\ ret.avg.num = 20 * ret.avg.den
              /\ ret.peak = [value |-> 30, timestamp |-> "1970-01-01T00:00:02.000Z"]
        /\ call = Points(<<Point(Timestamp(951827696, 789), Num(20))>>) =>
              ret.peak.timestamp = "2000-02-29T12:34:56.789Z"

\* the maximum occurs twice, after a null and a negative value
C5_Witness ==
    /\ pc = "returned"
    /\ Len(call.items) = 3
    /\ call.items[1].value \in {Null, Num(-1)}
    /\ call.items[2].value = Num(30)
    /\ call.items[3].value = Num(30)
    /\ call.items[2].timestamp # call.items[3].timestamp
    /\ ret.peak.timestamp = toISOString(call.items[2].timestamp)

(***************************************************************************)
(* The rankings of the top-consumer tools on their own.                    *)
(***************************************************************************)
MaxConsumers == 3

\* lengths of the collections that exceed the declared maximum of topN
LongLengths == {51, 52}

EntityId(i) == IF i <= 3 THEN <<"a", "b", "c">>[i] ELSE "e" \o PadStart(i, 2)

SampleTraffic ==
    {[present |-> TRUE, bytesUpstream |-> Num(100), bytesDownstream |-> Num(50)],
     [present |-> TRUE, bytesUpstream |-> Num(10), bytesDownstream |-> Num(5)],
     [present |-> TRUE, bytesUpstream |-> Num(5), bytesDownstream |-> Num(10)],
     [present |-> TRUE, bytesUpstream |-> Num(0), bytesDownstream |-> Num(0)],
     [present |-> TRUE, bytesUpstream |-> Undefined, bytesDownstream |-> Num(15)],
     NoMetrics}

\* the entities of a collection, entity i with traffic[i]
Consumers(traffic) ==
    [i \in 1..Len(traffic) |->
        [id |-> EntityId(i), name |-> EntityId(i), metrics |-> traffic[i],
         popName |-> Undefined, info |-> NoInfo]]

SampleTopN ==
    {Absent, Num(0), Num(1), Num(2), Num(3), Num(50), Num(51), Num(-1)}

TopNVariables(topN) ==
    IF topN = Absent THEN EmptyObject ELSE Put(EmptyObject, "topN", topN)

InitTopN ==
    /\ Started
    /\ pc = "called"
    /\ \E consumerType \in {"sites", "users"}, topN \in SampleTopN :
          \/ \E len \in 0..MaxConsumers : \E traffic \in [1..len -> SampleTraffic] :
                call = [consumerType |-> consumerType, variables |-> TopNVariables(topN),
                        consumers |-> Consumers(traffic)]
          \/ \E len \in LongLengths :
                call = [consumerType |-> consumerType, variables |-> TopNVariables(topN),
                        consumers |-> Consumers([i \in 1..len |->
                            [present |-> TRUE, bytesUpstream |-> Num(10),
                             bytesDownstream |-> Num(5)]])]
    /\ ret = EmptyObject

CallRank ==
    /\ pc = "called"
    /\ ret' = IF call.consumerType = "sites"
              THEN RankSites(call.consumers, EffectiveTopN(call.variables))
              ELSE RankUsers(call.consumers, EffectiveTopN(call.variables))
    /\ pc' = "returned"
    /\ UNCHANGED <<catoMcpToolWrappers, toolName, toolArguments, effectiveArgs,
                   graphqlVariables, stages, errorLog, content, reply, requests,
                   handlerResult, maxResponseLength, pending, call>>

SpecTopN == InitTopN /\ [][CallRank]_vars

\* a metric of entity i of the call, a missing one counting as 0
MetricOrZero(i, field) ==
    LET metrics == call.consumers[i].metrics
    IN  IF metrics.present /\ metrics[field].t = "number" THEN metrics[field].n ELSE 0

TotalOf(i) == MetricOrZero(i, "bytesUpstream") + MetricOrZero(i, "bytesDownstream")

\* the entities the ranking may return
Eligible ==
    {i \in 1..Len(call.consumers) : call.consumerType = "sites" \/ TotalOf(i) > 0}

\* entity i ranks before entity j
RanksBefore(i, j) == TotalOf(i) > TotalOf(j) \/ (TotalOf(i) = TotalOf(j) /\ i < j)

\* the N the caller asked for; the default when none is given
RequestedN ==
    IF "topN" \in DOMAIN call.variables THEN call.variables["topN"].n ELSE 5

Min(a, b) == IF a < b THEN a ELSE b

ReturnedIds == [k \in 1..Len(ret) |-> ret[k].id]

ExampleABC == \A i \in 1..3 :
    TotalOf(i) = <<150, 15, 0>>[i] /\ MetricOrZero(i, "bytesUpstream") = <<100, 10, 0>>[i]

\* C6: the ranking returns the first N eligible entities in descending order
\* of total = upstream + downstream (a missing value counts 0), equal totals
\* in input order; users with total 0 are not eligible, sites are.  a(100,50),
\* b(10,5), c(0,0) gives [a,b] for users with N=2 and [a,b,c] for sites with
\* N=3.
C6_TopNDescendingStable ==
    (pc = "returned" /\ RequestedN \in 1..50) =>
        /\ Len(ret) = Min(RequestedN, Cardinality(Eligible))
        /\ \A k \in 1..Len(ret) :
              /\ ret[k].index \in Eligible
              /\ ret[k].id = call.consumers[ret[k].index].id
              /\ ret[k].totalBytes = TotalOf(ret[k].index)
        /\ \A j, k \in 1..Len(ret) : j < k => RanksBefore(ret[j].index, ret[k].index)
        /\ \A i \in Eligible :
              (\A k \in 1..Len(ret) : ret[k].index # i) =>
                  \A k \in 1..Len(ret) : RanksBefore(ret[k].index, i)
        /\ (Len(call.consumers) = 3 /\ ExampleABC) =>
              /\ (call.consumerType = "users" /\ RequestedN = 2) => ReturnedIds = <<"a", "b">>
              /\ (call.consumerType = "sites" /\ RequestedN = 3) =>
                    ReturnedIds = <<"a", "b", "c">>

\* users: a zero-total entity first, then two equal totals given low to high
C6_Witness ==
    /\ pc = "returned"
    /\ call.consumerType = "users"
    /\ RequestedN = 2
    /\ Len(call.consumers) = 3
    /\ TotalOf(1) = 0 /\ TotalOf(2) = 15 /\ TotalOf(3) = 15
    /\ ReturnedIds = <<"b", "c">>

\* C7: N is bounded to [1,50] and defaults to 5: whatever topN the caller
\* passes, at most 50 entities and at most the eligible ones are returned,
\* and for N in [1,50] exactly min(N, eligible).
C7_AtMostFifty ==
    pc = "returned" =>
        /\ Len(ret) <= 50
        /\ Len(ret) <= Cardinality(Eligible)
        /\ RequestedN \in 1..50 => Len(ret) = Min(RequestedN, Cardinality(Eligible))

(***************************************************************************)
(* calculateHostUtilization (metricsUtils.ts:52-54).  A quotient is kept   *)
(* exact, as numerator and denominator; a denominator of 0 is a division   *)
(* by zero.                                                                *)
(***************************************************************************)
Quotient(a, b) == [num |-> a, den |-> b]

Times(q, k) == [num |-> q.num * k, den |-> q.den]

Zero == [num |-> 0, den |-> 1]

\* mutant: a limit of 0 is divided by
IsPositive_ZeroIncluded(x) == x.t = "number" /\ x.n >= 0

\* x > 0: false for null and undefined
IsPositive(x) == x.t = "number" /\ x.n > 0

\* q * 100
Percent(q) == Times(q, 100)

calculateHostUtilization(hostCount, hostLimit) ==
    IF IsPositive(hostLimit) THEN Percent(Quotient(hostCount.n, hostLimit.n)) ELSE Zero

MaxHosts == 10

SampleHostCounts == {Num(k) : k \in (0..MaxHosts) \cup {50}}

SampleHostLimits == {Null, Undefined} \cup {Num(k) : k \in (-1..MaxHosts) \cup {100}}

InitHostUtil ==
    /\ Started
    /\ pc = "called"
    /\ \E hostCount \in SampleHostCounts, hostLimit \in SampleHostLimits :
          call = [hostCount |-> hostCount, hostLimit |-> hostLimit]
    /\ ret = EmptyObject

CallCalculateHostUtilization ==
    /\ pc = "called"
    /\ ret' = calculateHostUtilization(call.hostCount, call.hostLimit)
    /\ pc' = "returned"
    /\ UNCHANGED <<catoMcpToolWrappers, toolName, toolArguments, effectiveArgs,
                   graphqlVariables, stages, errorLog, content, reply, requests,
                   handlerResult, maxResponseLength, pending, call>>

SpecHostUtil == InitHostUtil /\ [][CallCalculateHostUtilization]_vars

\* C8: host utilization is 100 * hostCount / hostLimit when hostLimit > 0 and
\* 0 otherwise, so nothing is divided by zero; (50,100) gives 50 and (5,0)
\* gives 0.
C8_HostUtilizationGuarded ==
    pc = "returned" =>
        /\ ret.den # 0
        /\ (call.hostLimit.t = "number" /\ call.hostLimit.n > 0) =>
              ret.num * call.hostLimit.n = 100 * call.hostCount.n * ret.den
        /\ ~(call.hostLimit.t = "number" /\ call.hostLimit.n > 0) => ret.num = 0
        /\ (call.hostCount = Num(50) /\ call.hostLimit = Num(100)) => ret.num = 50 * ret.den
        /\ (call.hostCount = Num(5) /\ call.hostLimit = Num(0)) => ret.num = 0

\* hosts over a limit of 0, and a utilization that is not a whole number
C8_Witness ==
    /\ pc = "returned"
    /\ \/ call.hostCount = Num(5) /\ call.hostLimit = Num(0) /\ ret = Zero
       \/ call.hostCount = Num(1) /\ call.hostLimit = Num(3) /\ ret.num * 3 = 100 * ret.den

(***************************************************************************)
(* Group keys (metricsUtils.ts:15-23, 133-148; part_004:190-281).  An      *)
(* entity is a site, an interface or a user: id and name are its own       *)
(* attributes, and each of info, interfaceInfo and socketInfo is a nested  *)
(* object that may be missing.                                             *)
(***************************************************************************)
FALLBACK_VALUES ==
    [UNKNOWN |-> Str(<<"Unknown">>), NONE |-> Str(<<"NONE">>),
     PRIMARY |-> Str(<<"PRIMARY">>), SECONDARY |-> Str(<<"SECONDARY">>),
     IN_OFFICE |-> Str(<<"In-Office">>), REMOTE |-> Str(<<"Remote">>)]

NoNested == [present |-> FALSE, fields |-> EmptyObject]

Nested(fields) == [present |-> TRUE, fields |-> fields]

\* x.nested?.attribute
Chain(x, nested, attribute) ==
    IF x[nested].present THEN Get(x[nested].fields, attribute) ELSE Undefined

\* a || b
Or(a, b) == IF Falsy(a) THEN b ELSE a

\* `${x}`
TemplateString(x) ==
    IF x.t = "string" THEN x
    ELSE IF x.t = "undefined" THEN Str(<<"undefined">>)
    ELSE IF x.t = "null" THEN Str(<<"null">>)
    ELSE IF x.t = "boolean" THEN Str(<<IF x.n = 1 THEN "true" ELSE "false">>)
    ELSE Str(<<"number", x.n>>)

GeneratorNames ==
    {"site", "siteType", "connType", "region", "interfaceRole", "interfaceName",
     "socketHA", "user", "osType", "clientVersion", "popName", "connectionStatus",
     "inOffice"}

GROUP_KEY_GENERATORS(dimension, x) ==
    CASE dimension = "site" -> TemplateString(Or(Chain(x, "info", "name"), x.id))
      [] dimension = "siteType" -> Or(Chain(x, "info", "type"), FALLBACK_VALUES.UNKNOWN)
      [] dimension = "connType" -> Or(Chain(x, "info", "connType"), FALLBACK_VALUES.UNKNOWN)
      [] dimension = "region" -> Or(Chain(x, "info", "region"), FALLBACK_VALUES.UNKNOWN)
      [] dimension = "interfaceRole" ->
             Or(Chain(x, "interfaceInfo", "wanRole"), FALLBACK_VALUES.NONE)
      [] dimension = "interfaceName" -> Or(x.name, FALLBACK_VALUES.UNKNOWN)
      [] dimension = "socketHA" ->
             IF ~Falsy(Chain(x, "socketInfo", "isPrimary"))
             THEN FALLBACK_VALUES.PRIMARY ELSE FALLBACK_VALUES.SECONDARY
      [] dimension = "user" ->
             TemplateString(Or(Or(Chain(x, "info", "name"), x.name), x.id))
      [] dimension = "osType" -> Or(Chain(x, "info", "osType"), FALLBACK_VALUES.UNKNOWN)
      [] dimension = "clientVersion" ->
             Or(Chain(x, "info", "version"), FALLBACK_VALUES.UNKNOWN)
      [] dimension = "popName" -> Or(Chain(x, "info", "popName"), FALLBACK_VALUES.UNKNOWN)
      [] dimension = "connectionStatus" ->
             Or(Chain(x, "info", "connectivityStatus"), FALLBACK_VALUES.UNKNOWN)
      [] dimension = "inOffice" ->
             IF ~Falsy(Chain(x, "info", "connectedInOffice"))
             THEN FALLBACK_VALUES.IN_OFFICE ELSE FALLBACK_VALUES.REMOTE

\* the key under which addSiteToGroup, addInterfacesToGroups and
\* addSiteToPropertyGroup file an entity
GroupKey(groupBy, x) ==
    IF groupBy \in GeneratorNames THEN GROUP_KEY_GENERATORS(groupBy, x)
    ELSE Str(<<"Unknown">>)

\* where each dimension reads its attribute
AttributeOf ==
    [site |-> <<"info", "name">>, siteType |-> <<"info", "type">>,
     connType |-> <<"info", "connType">>, region |-> <<"info", "region">>,
     interfaceRole |-> <<"interfaceInfo", "wanRole">>, interfaceName |-> <<"", "name">>,
     socketHA |-> <<"socketInfo", "isPrimary">>, user |-> <<"info", "name">>,
     osType |-> <<"info", "osType">>, clientVersion |-> <<"info", "version">>,
     popName |-> <<"info", "popName">>,
     connectionStatus |-> <<"info", "connectivityStatus">>,
     inOffice |-> <<"info", "connectedInOffice">>]

SampleAttributes ==
    {Undefined, Null, Str(<<>>), Str(<<"x">>), Bool(TRUE), Bool(FALSE)}

\* an entity whose nested objects hold at most the attribute of `dimension`
SampleEntity(dimension, id, name, present, attribute) ==
    LET nested(n) ==
            IF present /\ AttributeOf[dimension][1] = n
            THEN Nested(Put(EmptyObject, AttributeOf[dimension][2], attribute))
            ELSE IF present THEN Nested(EmptyObject) ELSE NoNested
    IN  [id |-> id, name |-> name, info |-> nested("info"),
         interfaceInfo |-> nested("interfaceInfo"), socketInfo |-> nested("socketInfo")]

InitGroupKey ==
    /\ Started
    /\ pc = "called"
    /\ \E dimension \in GeneratorNames, id \in {Undefined, Str(<<"id1">>)},
          name \in {Undefined, Str(<<"n1">>)}, present \in BOOLEAN,
          attribute \in SampleAttributes :
          \E groupBy \in {dimension, "bogus"} :
             call = [groupBy |-> groupBy,
                     entity |-> SampleEntity(dimension, id, name, present, attribute)]
    /\ ret = EmptyObject

CallGroupKey ==
    /\ pc = "called"
    /\ ret' = GroupKey(call.groupBy, call.entity)
    /\ pc' = "returned"
    /\ UNCHANGED <<catoMcpToolWrappers, toolName, toolArguments, effectiveArgs,
                   graphqlVariables, stages, errorLog, content, reply, requests,
                   handlerResult, maxResponseLength, pending, call>>

SpecGroupKey == InitGroupKey /\ [][CallGroupKey]_vars

\* the entity of the call has no (truthy) value for what the dimension reads
LacksAttribute ==
    /\ call.groupBy \in GeneratorNames
    /\ IF call.groupBy = "site"
       THEN Falsy(Chain(call.entity, "info", "name")) /\ Falsy(call.entity.id)
       ELSE IF call.groupBy = "user"
       THEN /\ Falsy(Chain(call.entity, "info", "name"))
            /\ Falsy(call.entity.name) /\ Falsy(call.entity.id)
       ELSE IF call.groupBy = "interfaceName" THEN Falsy(call.entity.name)
       ELSE Falsy(Chain(call.entity, AttributeOf[call.groupBy][1],
                        AttributeOf[call.groupBy][2]))

\* the literals of FALLBACK_VALUES
FallbackLiterals == {FALLBACK_VALUES[k] : k \in DOMAIN FALLBACK_VALUES}

\* C9: for every grouping dimension the key of an entity that lacks the
\* underlying attribute is a documented fallback literal; the key is never
\* undefined nor the text "undefined", also for the dimensions site and user
\* when the entity has neither a name nor an id.
C9_FallbackLiteralForMissingAttribute ==
    pc = "returned" =>
        /\ ret # Undefined
        /\ ret # Str(<<"undefined">>)
        /\ LacksAttribute => ret \in FallbackLiterals

(***************************************************************************)
(* The reply of the endpoint.                                              *)
(***************************************************************************)
\* the envelope has no usable data: data is absent, is an empty mapping, or
\* every top-level value of it is null
UnusableEnvelope ==
    \/ reply.body.data.t # "object"
    \/ \A f \in DOMAIN reply.body.data.fields : reply.body.data.fields[f] = NullRoot

\* the remote error messages the envelope reports
RemoteMessages ==
    IF reply.body.errors.t = "array" THEN reply.body.errors.messages ELSE <<>>

\* C10: for a success-status envelope whose data is absent, empty or all
\* null, with or without an errors list, the invocation fails with an
\* upstream error whose message is the join of the remote error messages,
\* and the response transform is not run.
C10_UnusableEnvelopeIsUpstreamError ==
    (pc = "done" /\ reply.ok /\ reply.json /\ UnusableEnvelope) =>
        /\ content.isError
        /\ content.error.msg = "GraphQL errors"
        /\ content.error.detail = <<Join(RemoteMessages)>>
        /\ \A k \in 1..Len(stages) : stages[k] # "responseTransform"

(***************************************************************************)
(* The canonical empty result.                                             *)
(***************************************************************************)
\* the collection a tool's domain is about
DomainOf ==
    [top_site_bandwidth_consumers |-> "sites", sites_by_location |-> "sites",
     top_users_bandwidth_consumers |-> "users", user_metrics |-> "users"]

\* the root object the tool reads its collection from
ExpectedRoot ==
    IF toolName = "sites_by_location" THEN "accountSnapshot" ELSE "accountMetrics"

\* the envelope as received does not hold the tool's collection
LacksExpectedCollection ==
    \/ ExpectedRoot \notin DOMAIN reply.body.data.fields
    \/ ~Truthy(reply.body.data.fields[ExpectedRoot][DomainOf[toolName]])

\* the envelope's root object, if it is there
ReceivedRoot ==
    IF ExpectedRoot \in DOMAIN reply.body.data.fields
    THEN reply.body.data.fields[ExpectedRoot] ELSE NullRoot

\* C11: a usable envelope without the tool's expected collection makes the
\* response transform return, without throwing, the empty result of the tool's
\* domain: the time frame (or snapshot timestamp) echoed and an empty
\* collection of that domain.
C11_EmptyResultOfTheDomain ==
    (pc = "done" /\ reply.ok /\ reply.json /\ ~UnusableEnvelope /\ LacksExpectedCollection) =>
        /\ ~content.isError
        /\ LET result == handlerResult IN
           /\ DomainOf[toolName] \in DOMAIN result
           /\ result[DomainOf[toolName]] = <<>>
           /\ IF toolName = "sites_by_location"
              THEN result.accountSnapshotTimestamp = ReceivedRoot.timestamp
              ELSE result.from = ReceivedRoot.from /\ result.to = ReceivedRoot.to

(***************************************************************************)
(* Truncation of the serialized result (part_007:102-106), applied to      *)
(* texts of up to MaxTextLen characters under maxima of 1..MaxTextLen.     *)
(***************************************************************************)
MaxTextLen == 4

TextChars == {"{", "1", "}"}

InitTruncate ==
    /\ Started
    /\ pc = "called"
    /\ \E len \in 0..MaxTextLen : \E chars \in [1..len -> TextChars] :
           \E max \in 1..MaxTextLen :
               call = [responseText |-> TextOf(chars), maxResponseLength |-> max]
    /\ ret = EmptyObject

CallTruncate ==
    /\ pc = "called"
    /\ "responseText" \in DOMAIN call
    /\ ret' = Str(Truncate(call.responseText, call.maxResponseLength))
    /\ pc' = "returned"
    /\ UNCHANGED <<catoMcpToolWrappers, toolName, toolArguments, effectiveArgs,
                   graphqlVariables, stages, errorLog, content, reply, requests,
                   handlerResult, maxResponseLength, pending, call>>

SpecTruncate == InitTruncate /\ [][CallTruncate]_vars

PreambleLength == Len(MAX_RESPONSE_LENGTH_EXCEEDED_MESSAGE)

\* C12: a serialized result longer than the maximum M comes back as the fixed
\* preamble immediately followed by its first M characters, so of length
\* exactly preambleLength + M; a serialized result of length at most M comes
\* back unchanged, without the preamble.
C12_PreambleThenFirstMCharacters ==
    (pc = "returned" /\ "responseText" \in DOMAIN call) =>
        LET M == call.maxResponseLength
            serialized == call.responseText
        IN  IF Len(serialized) > M
            THEN /\ Len(ret.v) = PreambleLength + M
                 /\ SubSeq(ret.v, 1, PreambleLength) = MAX_RESPONSE_LENGTH_EXCEEDED_MESSAGE
                 /\ \A k \in 1..M :
                        SubSeq(ret.v, PreambleLength + k, PreambleLength + k) =
                        SubSeq(serialized, k, k)
            ELSE ret.v = serialized

C12_Witness ==
    /\ pc = "returned"
    /\ "responseText" \in DOMAIN call
    /\ call.responseText = "{11}"
    /\ call.maxResponseLength = 3
    /\ ret.v = MAX_RESPONSE_LENGTH_EXCEEDED_MESSAGE \o "{11"

(***************************************************************************)
(* Startup: initializeMaxResponseLength (part_007:42-47) reads             *)
(* CATO_MAX_RESPONSE_LENGTH through getEnvVariable (part_009:6-15).  An    *)
(* environment variable is [set, text]; a number is [nan, n].              *)
(***************************************************************************)
Unset == [set |-> FALSE, text |-> ""]

EnvValue(text) == [set |-> TRUE, text |-> text]

\* getEnvVariable(name, defaultValue) for the value found in process.env
getEnvVariable(value, defaultValue) ==
    IF value.set /\ value.text # "" THEN Return(value.text)
    ELSE IF defaultValue # "" THEN Return(defaultValue)
    ELSE Throw([NoError EXCEPT !.msg = "Environment variable is not set"])

NaN == [nan |-> TRUE, n |-> 0]

IsDigit(c) == \E k \in 1..10 : Digits[k] = c

DigitValue(c) == (CHOOSE k \in 1..10 : Digits[k] = c) - 1

\* the white space parseInt skips
RECURSIVE SkipWhiteSpace(_)
SkipWhiteSpace(text) ==
    IF text # "" /\ Head(text) \in {" ", "\t", "\n"} THEN SkipWhiteSpace(Tail(text)) ELSE text

\* the value of the longest prefix of decimal digits, after the digits read
RECURSIVE LeadingDigits(_, _, _)
LeadingDigits(text, read, value) ==
    IF text # "" /\ IsDigit(Head(text))
    THEN LeadingDigits(Tail(text), read + 1, 10 * value + DigitValue(Head(text)))
    ELSE [read |-> read, value |-> value]

\* parseInt(text, 10)
parseInt(text) ==
    LET stripped == SkipWhiteSpace(text)
        signed == stripped # "" /\ Head(stripped) \in {"+", "-"}
        digits == LeadingDigits(IF signed THEN Tail(stripped) ELSE stripped, 0, 0)
    IN  IF digits.read = 0 THEN NaN
        ELSE [nan |-> FALSE,
              n |-> IF signed /\ Head(stripped) = "-" THEN 0 - digits.value
                    ELSE digits.value]

\* initializeMaxResponseLength: the value it leaves in maxResponseLength
initializeMaxResponseLength(value) ==
    LET parsed == parseInt(getEnvVariable(value,
                               NumberToString(DEFAULT_MAX_RESPONSE_LENGTH)).value)
    IN  IF parsed.nan \/ parsed.n = 0 \/ parsed.n <= 0
        THEN DEFAULT_MAX_RESPONSE_LENGTH
        ELSE parsed.n

\* what CATO_MAX_RESPONSE_LENGTH may hold when the server starts
EnvValues ==
    {Unset} \cup
    {EnvValue(text) : text \in {"", "0", "-5", "abc", "12abc", "50", "60", "1", " 7",
                                "+3", "007", "200000", "300000", "1.5", "0.5"}}

\* the module is loaded: maxResponseLength is declared and not yet assigned
\* (0 stands for undefined)
InitStartup ==
    /\ catoMcpToolWrappers = initCatoMcpToolWrappers(accountId)
    /\ pc = "starting"
    /\ toolName = ""
    /\ toolArguments = NoArguments
    /\ effectiveArgs = EmptyObject
    /\ graphqlVariables = EmptyObject
    /\ stages = <<>>
    /\ errorLog = <<>>
    /\ content = NoContent
    /\ reply = NoReply
    /\ requests = <<>>
    /\ handlerResult = NoResult
    /\ maxResponseLength = 0
    /\ pending = {}
    /\ \E value \in EnvValues : call = [CATO_MAX_RESPONSE_LENGTH |-> value]
    /\ ret = EmptyObject

\* initializeGraphqlClient (part_007:22-26), then the server takes requests
initializeGraphqlClient ==
    /\ pc = "starting"
    /\ maxResponseLength' = initializeMaxResponseLength(call.CATO_MAX_RESPONSE_LENGTH)
    /\ pc' = "idle"
    /\ UNCHANGED <<catoMcpToolWrappers, toolName, toolArguments, effectiveArgs,
                   graphqlVariables, stages, errorLog, content, reply, requests,
                   handlerResult, pending, call, ret>>

\* replies of the endpoint with two sites and two users, and a failure
StartupReplies ==
    {JsonReply(Envelope(Data([accountMetrics |-> root, accountSnapshot |-> root]), errors)) :
        root \in {Root(Collection(sites), Collection(users)) :
                     sites \in SampleSites, users \in SampleUsers},
        errors \in {NoErrors, Errors(<<"m1">>)}}
    \cup OtherReplies

FetchResolveStartup ==
    /\ pc = "awaiting"
    /\ \E response \in StartupReplies : FetchResolve(response)

NextStartup ==
    \/ initializeGraphqlClient
    \/ CallToolSample
    \/ FetchResolveStartup
    \/ FetchReject
    \/ NextRequest

SpecStartup == InitStartup /\ [][NextStartup]_vars

\* Number(text) of a configured value written in decimal digits, with an
\* optional sign, an optional fraction and leading blanks:
\* [nan, n, whole], n the integer part
ConfiguredNumber ==
    LET text == call.CATO_MAX_RESPONSE_LENGTH.text
        stripped == SkipWhiteSpace(text)
        signed == stripped # "" /\ Head(stripped) \in {"+", "-"}
        unsigned == IF signed THEN Tail(stripped) ELSE stripped
        digits == LeadingDigits(unsigned, 0, 0)
        rest == SubSeq(unsigned, digits.read + 1, Len(unsigned))
        fraction == LeadingDigits(IF rest = "" THEN "" ELSE Tail(rest), 0, 0)
        n == IF signed /\ Head(stripped) = "-" THEN 0 - digits.value ELSE digits.value
    IN  IF text = "" THEN [nan |-> FALSE, n |-> 0, whole |-> TRUE]
        ELSE IF digits.read = 0 THEN [nan |-> TRUE, n |-> 0, whole |-> FALSE]
        ELSE IF rest = "" THEN [nan |-> FALSE, n |-> n, whole |-> TRUE]
        ELSE IF Head(rest) = "." /\ fraction.read = Len(rest) - 1 /\ fraction.read > 0
        THEN [nan |-> FALSE, n |-> n, whole |-> fraction.value = 0]
        ELSE [nan |-> TRUE, n |-> 0, whole |-> FALSE]

\* the configured value is a positive number
ConfiguredPositive ==
    /\ call.CATO_MAX_RESPONSE_LENGTH.set
    /\ ~ConfiguredNumber.nan
    /\ ConfiguredNumber.n > 0 \/ (ConfiguredNumber.n = 0 /\ ~ConfiguredNumber.whole)

\* C13: after startup the effective maximum is a positive integer; it is the
\* configured value when that is a positive number and the default 200,000
\* when the configured value is unset, non-positive or non-numeric.
C13_EffectiveMaximumResolvedAtStartup ==
    (pc # "starting" /\ "CATO_MAX_RESPONSE_LENGTH" \in DOMAIN call) =>
        /\ maxResponseLength \in Nat \ {0}
        /\ IF ConfiguredPositive
           THEN ConfiguredNumber.whole /\ maxResponseLength = ConfiguredNumber.n
           ELSE maxResponseLength = DEFAULT_MAX_RESPONSE_LENGTH

\* after startup the maximum is a positive integer whatever was configured
PositiveAfterStartup == pc # "starting" => maxResponseLength \in Nat \ {0}

(***************************************************************************)
(* Combining the contributors of a label (part_014:452-510, the same code  *)
(* at part_016:318-376).  A contributor is [data]; data is NoPoints or     *)
(* Points(items), and an item is a Point or MissingPoint, an entry that is *)
(* null.  The sum and the units of a label are not modelled.               *)
(***************************************************************************)
MissingPoint == [timestamp |-> Timestamp(0, 0), value |-> Undefined, missing |-> TRUE]

PointAt(timestamp, value) == [timestamp |-> timestamp, value |-> value, missing |-> FALSE]

Metric(data) == [data |-> data]

\* m.data?.length || 0
DataLength(metric) == IF metric.data.t = "array" THEN Len(metric.data.items) ELSE 0

\* Math.max(...metrics.map(m => m.data?.length || 0)) for one metric or more
maxBuckets(metrics) == MathMax([k \in 1..Len(metrics) |-> DataLength(metrics[k])])

\* mutant: a point whose value is null does not count as a point
HasPointAt_ValueRequired(metric, i) ==
    /\ metric.data.t = "array"
    /\ i <= Len(metric.data.items)
    /\ ~metric.data.items[i].missing
    /\ metric.data.items[i].value.t = "number"

\* metric.data && metric.data[i], bucket i counted from 1
HasPointAt(metric, i) ==
    /\ metric.data.t = "array"
    /\ i <= Len(metric.data.items)
    /\ ~metric.data.items[i].missing

\* the forEach of part_014:497-502 from contributor k on: timestamp is
\* assigned, and the value added, for every contributor with a point
RECURSIVE ForEachMetric(_, _, _, _)
ForEachMetric(metrics, i, k, acc) ==
    IF k > Len(metrics) THEN acc
    ELSE IF HasPointAt(metrics[k], i)
    THEN ForEachMetric(metrics, i, k + 1,
             [isNull |-> FALSE,
              timestamp |-> metrics[k].data.items[i].timestamp,
              aggregatedValue |-> acc.aggregatedValue + OrZero(metrics[k].data.items[i].value)])
    ELSE ForEachMetric(metrics, i, k + 1, acc)

\* the for loop of part_014:493-507 from bucket i on
RECURSIVE AggregateFrom(_, _, _)
AggregateFrom(metrics, i, aggregatedData) ==
    IF i > maxBuckets(metrics) THEN aggregatedData
    ELSE LET bucket == ForEachMetric(metrics, i, 1,
                           [isNull |-> TRUE, timestamp |-> Timestamp(0, 0),
                            aggregatedValue |-> 0])
         IN  AggregateFrom(metrics, i + 1,
                 IF bucket.isNull THEN aggregatedData
                 ELSE Append(aggregatedData,
                             Point(bucket.timestamp, Num(bucket.aggregatedValue))))

aggregateTimeseriesData(metrics) == AggregateFrom(metrics, 1, <<>>)

\* aggregateInterfaceMetrics for one label: the data, buckets and summary
aggregateInterfaceMetrics(interfaceMetrics) ==
    LET aggregatedData == aggregateTimeseriesData(interfaceMetrics)
    IN  [summary |-> calculateSummary(Points(aggregatedData)),
         buckets |-> Len(aggregatedData),
         data |-> aggregatedData]

MaxContributors == 2

MaxBuckets == 2

SampleBucketEntries ==
    {MissingPoint, PointAt(Timestamp(1, 0), Null), PointAt(Timestamp(2, 0), Num(10))}

\* the data of a contributor: none, or up to MaxBuckets entries
SampleSeries ==
    {NoPoints} \cup
    UNION {{Points(items) : items \in [1..len -> SampleBucketEntries]} : len \in 0..MaxBuckets}

ExampleSeries ==
    <<Metric(Points(<<PointAt(Timestamp(0, 0), Num(10)), PointAt(Timestamp(0, 1), Num(20)),
                      PointAt(Timestamp(0, 2), Num(30))>>)),
      Metric(Points(<<PointAt(Timestamp(0, 0), Num(5)), PointAt(Timestamp(0, 1), Null),
                      PointAt(Timestamp(0, 2), Num(15))>>))>>

InitAggregate ==
    /\ Started
    /\ pc = "called"
    /\ \/ call = [interfaceMetrics |-> ExampleSeries]
       \/ \E n \in 1..MaxContributors : \E series \in [1..n -> SampleSeries] :
             call = [interfaceMetrics |-> [k \in 1..n |-> Metric(series[k])]]
    /\ ret = EmptyObject

CallAggregateInterfaceMetrics ==
    /\ pc = "called"
    /\ "interfaceMetrics" \in DOMAIN call
    /\ ret' = aggregateInterfaceMetrics(call.interfaceMetrics)
    /\ pc' = "returned"
    /\ UNCHANGED <<catoMcpToolWrappers, toolName, toolArguments, effectiveArgs,
                   graphqlVariables, stages, errorLog, content, reply, requests,
                   handlerResult, maxResponseLength, pending, call>>

SpecAggregate == InitAggregate /\ [][CallAggregateInterfaceMetrics]_vars

\* the contributors, in contributor order, that have a point at bucket i
ContributorsAt(i) ==
    {k \in 1..Len(call.interfaceMetrics) :
        /\ call.interfaceMetrics[k].data.t = "array"
        /\ i \in 1..Len(call.interfaceMetrics[k].data.items)
        /\ ~call.interfaceMetrics[k].data.items[i].missing}

\* the buckets below the longest contributor's length where a contributor
\* has a point
LongestLength ==
    CHOOSE n \in 0..(MaxBuckets + 2) :
        /\ \A k \in 1..Len(call.interfaceMetrics) : DataLength(call.interfaceMetrics[k]) <= n
        /\ n > 0 => \E k \in 1..Len(call.interfaceMetrics) :
                       DataLength(call.interfaceMetrics[k]) = n

CoveredBuckets == {i \in 1..LongestLength : ContributorsAt(i) # {}}

\* the value a contributor adds at bucket i: a missing or null value is 0
ValueAt(k, i) ==
    LET value == call.interfaceMetrics[k].data.items[i].value
    IN  IF value.t = "number" THEN value.n ELSE 0

RECURSIVE SumOfContributors(_, _)
SumOfContributors(contributors, i) ==
    IF contributors = {} THEN 0
    ELSE LET k == CHOOSE k \in contributors : TRUE
         IN  ValueAt(k, i) + SumOfContributors(contributors \ {k}, i)

\* the position in the output of covered bucket i
OutputPosition(i) == Cardinality({j \in CoveredBuckets : j <= i})

\* C14: the combined series has one point for every bucket below the longest
\* contributor's length at which some contributor has a point, in bucket
\* order, and none for the other buckets; its value is the sum of the values
\* of the contributors with a point there, a missing or null value counting
\* as 0; the summary is that of the combined series.  The example series
\* give the values 15, 20, 45 with an average of 80/3.
C14_CombinedSeriesSumsByIndex ==
    (pc = "returned" /\ "interfaceMetrics" \in DOMAIN call) =>
        /\ Len(ret.data) = Cardinality(CoveredBuckets)
        /\ \A i \in CoveredBuckets :
              ret.data[OutputPosition(i)].value = Num(SumOfContributors(ContributorsAt(i), i))
        /\ ret.summary = calculateSummary(Points(ret.data))
        /\ call.interfaceMetrics = ExampleSeries =>
              /\ [k \in 1..3 |-> ret.data[k].value.n] = <<15, 20, 45>>
              /\ ret.summary.avg = [num |-> 80, den |-> 3]

C14_Witness ==
    /\ pc = "returned"
    /\ "interfaceMetrics" \in DOMAIN call
    /\ Len(call.interfaceMetrics) = 2
    /\ ContributorsAt(1) = {2}
    /\ ContributorsAt(2) = {1, 2}
    /\ call.interfaceMetrics[1].data.items[2].value = Null
    /\ call.interfaceMetrics[2].data.items[2].value = Num(10)
    /\ Len(ret.data) = 2
    /\ ret.data[2].value = Num(10)

\* C19: the timestamp of the combined point of bucket i is the timestamp of
\* the first contributor, in contributor order, that has a point at bucket i.
C19_TimestampOfFirstContributor ==
    (pc = "returned" /\ "interfaceMetrics" \in DOMAIN call) =>
        \A i \in CoveredBuckets :
            LET first == CHOOSE k \in ContributorsAt(i) : \A j \in ContributorsAt(i) : k <= j
            IN  /\ OutputPosition(i) <= Len(ret.data)
                /\ ret.data[OutputPosition(i)].timestamp =
                       call.interfaceMetrics[first].data.items[i].timestamp

(***************************************************************************)
(* One invocation from end to end (checked under Spec).                    *)
(***************************************************************************)
\* the invocation reached the executor
ReachedExecutor == \E k \in 1..Len(stages) : stages[k] = "fetch"

Ran(stage) == \E k \in 1..Len(stages) : stages[k] = stage

\* C15: an invocation issues at most one downstream call: one that reaches
\* the executor has made exactly one call, carrying the tool's query and the
\* built parameters, and after a failed call, a non-success status, an
\* unusable envelope or a failed transform no further call is made.
C15_AtMostOneDownstreamCall ==
    /\ Len(requests) <= 1
    /\ ReachedExecutor =>
          requests = <<[query |-> catoMcpToolWrappers[toolName].gqlQuery,
                        variables |-> graphqlVariables]>>
    /\ ~ReachedExecutor => requests = <<>>

C15_Witness ==
    /\ pc = "done"
    /\ content.isError
    /\ Ran("responseTransform")
    /\ Len(requests) = 1
    /\ requests[1].query = "topUsersBandwidthConsumers"

\* the input transform guard of the invoked tool rejects the arguments
GuardRejects ==
    /\ toolName = "user_metrics"
    /\ \/ "userIDs" \notin DOMAIN effectiveArgs
       \/ Falsy(effectiveArgs["userIDs"])
       \/ HasLengthZero(effectiveArgs["userIDs"])

\* the collection the invoked tool reads is not a list
CollectionNotAList ==
    /\ KnownTool
    /\ reply.body.data.t = "object"
    /\ LET root == IF toolName = "sites_by_location" THEN "accountSnapshot"
                   ELSE "accountMetrics"
           field == IF toolName \in {"sites_by_location", "top_site_bandwidth_consumers"}
                    THEN "sites" ELSE "users"
       IN  /\ root \in DOMAIN reply.body.data.fields
           /\ reply.body.data.fields[root][field] = NotAList

\* the stage at which the invocation meets an error, "" for none
FailingStage ==
    IF ~KnownTool THEN "lookup"
    ELSE IF BadEntries # {} THEN "normalize"
    ELSE IF GuardRejects THEN "inputTransform"
    ELSE IF reply = NoReply THEN "fetch"
    ELSE IF ~reply.ok THEN "status"
    ELSE IF ~reply.json THEN "body"
    ELSE IF Unusable(reply.body) THEN "validate"
    ELSE IF CollectionNotAList THEN "responseTransform"
    ELSE ""

\* the message of the error of each failing stage
MessageOf ==
    [lookup |-> {"Tool not found"}, normalize |-> {"Error parsing tool argument"},
     inputTransform |-> {"UserIDs are required for metrics analysis"},
     fetch |-> {"fetch failed"}, status |-> {"GraphQL request failed with status"},
     body |-> {"SyntaxError"}, validate |-> {"GraphQL errors", "TypeError"},
     responseTransform |-> {"TypeError"}]

\* C16: an error raised in any stage (unknown tool, argument parsing, input
\* transform guard, network failure, non-success status, unusable envelope,
\* response transform) ends the invocation with an error payload that
\* carries the error's message; every invocation ends with a payload, and
\* the next invocation starts from the state startup left.
C16_ErrorsBecomeErrorPayloads ==
    /\ pc = "done" =>
          /\ content # NoContent
          /\ content.isError <=> FailingStage # ""
          /\ content.isError =>
                /\ content.error.msg \in MessageOf[FailingStage]
                /\ content.text = <<>>
                /\ errorLog # <<>> /\ errorLog[Len(errorLog)] = content.error
    /\ pc = "idle" =>
          /\ catoMcpToolWrappers = initCatoMcpToolWrappers(accountId)
          /\ maxResponseLength = DEFAULT_MAX_RESPONSE_LENGTH
          /\ <<toolName, toolArguments, effectiveArgs, graphqlVariables>> =
                 <<"", NoArguments, EmptyObject, EmptyObject>>
          /\ <<stages, errorLog, content, reply, requests, handlerResult>> =
                 <<(<<>>), (<<>>), NoContent, NoReply, (<<>>), NoResult>>

C16_Witness ==
    /\ pc = "done"
    /\ FailingStage = "responseTransform"
    /\ toolName = "sites_by_location"
    /\ content.isError
    /\ content.error.detail = <<"allSites is not iterable">>

StageOrder ==
    <<"lookup", "normalize", "inputTransform", "fetch", "validate", "responseTransform",
      "serialize">>

StageIndex(stage) == CHOOSE k \in 1..Len(StageOrder) : StageOrder[k] = stage

\* C17: the stages of an invocation run in the order lookup, normalization,
\* input transform, downstream call, envelope validation, response
\* transform, serialization, each at most once, and none after a stage that
\* failed: no downstream call when lookup, normalization or the input
\* transform fails; no response transform for a non-success status, which
\* fails with the status and the body text, or for an unusable envelope.
C17_StagesInOrder ==
    /\ \A k \in 1..Len(stages) : \E j \in 1..Len(StageOrder) : StageOrder[j] = stages[k]
    /\ \A j, k \in 1..Len(stages) : j < k => StageIndex(stages[j]) < StageIndex(stages[k])
    /\ pc = "done" =>
          /\ FailingStage \in {"lookup", "normalize", "inputTransform"} =>
                /\ ~Ran("fetch") /\ requests = <<>>
                /\ stages[Len(stages)] = FailingStage
          /\ FailingStage \in {"fetch", "status", "body"} => stages[Len(stages)] = "fetch"
          /\ FailingStage = "status" =>
                /\ content.error.status = reply.status
                /\ content.error.detail = <<reply.text>>
          /\ FailingStage \in {"validate", "responseTransform"} =>
                stages[Len(stages)] = FailingStage
          /\ FailingStage = "" <=> Ran("serialize")
          /\ Ran("responseTransform") => Ran("validate")

C17_Witness ==
    /\ pc = "done"
    /\ FailingStage = "validate"
    /\ reply.body.errors.t = "array"
    /\ stages = <<"lookup", "normalize", "inputTransform", "fetch", "validate">>

\* the outcome of the same reply without its errors list
WithoutErrors ==
    handleGraphqlResponse(graphqlVariables, [reply EXCEPT !.body.errors = NoErrors],
                          catoMcpToolWrappers[toolName].responseHandler, maxResponseLength)

\* the log entry of the envelope's errors
ErrorsEntry ==
    [NoError EXCEPT !.msg = "GraphQL response errors", !.detail = reply.body.errors.messages]

\* C20: a non-empty errors list beside at least one non-null top-level data
\* value is not fatal: the errors are logged, the response transform runs and
\* the invocation returns what it returns for the same data without errors;
\* the errors of an unusable envelope are logged too, before the failure.
C20_ErrorsBesideDataAreNotFatal ==
    (pc = "done" /\ reply # NoReply /\ reply.ok /\ reply.json
        /\ reply.body.errors.t = "array" /\ reply.body.errors.messages # <<>>) =>
        IF UnusableEnvelope
        THEN /\ content.isError
             /\ errorLog = <<ErrorsEntry, content.error>>
        ELSE /\ Ran("responseTransform")
             /\ errorLog # <<>> /\ errorLog[1] = ErrorsEntry
             /\ content.isError = WithoutErrors.threw
             /\ ~content.isError =>
                   /\ content.text = <<WithoutErrors.value>>
                   /\ handlerResult = WithoutErrors.result

C20_Witness ==
    /\ pc = "done"
    /\ reply # NoReply /\ reply.ok /\ reply.json
    /\ reply.body.errors = Errors(<<"m1", "m2">>)
    /\ ~UnusableEnvelope
    /\ ~content.isError
    /\ handlerResult.kind = "topConsumers"
    /\ handlerResult.showingTop = 1
    /\ errorLog = <<ErrorsEntry>>

(***************************************************************************)
(* Interleaved invocations.  The handler of index.ts:58-93 is an async     *)
(* function: at the await of line 70 it is suspended with its locals       *)
(* (toolName, toolArguments, tool, graphqlVariables) and the event loop    *)
(* may take another request, or resume a suspended handler with the reply  *)
(* of its own fetch.  A suspended handler is a frame of `pending`.         *)
(***************************************************************************)
MaxPending == 2

\* the locals of the running handler
Frame(id) ==
    [id |-> id, toolName |-> toolName, toolArguments |-> toolArguments,
     effectiveArgs |-> effectiveArgs, graphqlVariables |-> graphqlVariables,
     stages |-> stages, errorLog |-> errorLog, requests |-> requests]

\* mutant: graphqlVariables is one variable of the module, shared by all
\* handlers, instead of a const of each call
ResumedVariables_ModuleLevel(frame) == graphqlVariables

\* the graphqlVariables the resumed handler reads (index.ts:67, a const of
\* the call)
ResumedVariables(frame) == frame.graphqlVariables

\* the running handler reaches its await and is suspended; a handler that
\* was resumed runs to its end
Suspend ==
    /\ pc = "awaiting"
    /\ \A k \in 1..Len(stages) : stages[k] # "resumed"
    /\ Cardinality(pending) < MaxPending
    /\ LET id == CHOOSE i \in 1..MaxPending : \A frame \in pending : frame.id # i
       IN  pending' = pending \cup {Frame(id)}
    /\ pc' = "idle"
    /\ toolName' = ""
    /\ toolArguments' = NoArguments
    /\ effectiveArgs' = EmptyObject
    /\ graphqlVariables' = EmptyObject
    /\ stages' = <<>>
    /\ errorLog' = <<>>
    /\ requests' = <<>>
    /\ UNCHANGED <<catoMcpToolWrappers, content, reply, handlerResult,
                   maxResponseLength, call, ret>>

\* the fetch of a suspended handler settles and the handler is resumed
Resume ==
    /\ pc = "idle"
    /\ \E frame \in pending :
          /\ pending' = pending \ {frame}
          /\ toolName' = frame.toolName
          /\ toolArguments' = frame.toolArguments
          /\ effectiveArgs' = frame.effectiveArgs
          /\ graphqlVariables' = ResumedVariables(frame)
          /\ stages' = frame.stages \o <<"resumed">>
          /\ errorLog' = frame.errorLog
          /\ requests' = frame.requests
    /\ pc' = "awaiting"
    /\ UNCHANGED <<catoMcpToolWrappers, content, reply, handlerResult,
                   maxResponseLength, call, ret>>

InterleavedNames == {"top_site_bandwidth_consumers", "user_metrics", "no_such_tool"}

CallToolInterleaved ==
    /\ pc = "idle"
    /\ \E name \in InterleavedNames, arguments \in SampleArguments :
          CallTool(name, arguments)

NextInterleaved ==
    \/ CallToolInterleaved
    \/ Suspend
    \/ Resume
    \/ FetchResolveStartup
    \/ FetchReject
    \/ NextRequest

SpecInterleaved == Init /\ [][NextInterleaved]_vars

\* what the invocation returns when it runs alone, from the state startup
\* left, with the same name, arguments and reply
ContentAlone ==
    LET registry == initCatoMcpToolWrappers(accountId)
        tool == findMcpTool(registry, toolName)
        prepared == prepareGraphqlVariables(registry, toolName, toolArguments,
                                            tool.value.inputHandler)
        handled == handleGraphqlResponse(prepared.value, reply, tool.value.responseHandler,
                                         DEFAULT_MAX_RESPONSE_LENGTH)
    IN  IF tool.threw THEN ErrorContent(tool.error)
        ELSE IF prepared.threw THEN ErrorContent(prepared.error)
        ELSE IF reply = NoReply THEN ErrorContent([NoError EXCEPT !.msg = "fetch failed"])
        ELSE IF handled.threw THEN ErrorContent(handled.error)
        ELSE [isError |-> FALSE, error |-> NoError, text |-> <<handled.value>>]

\* C18: invocations that interleave at their await are independent: each
\* returns what it returns alone with the same arguments and the same reply,
\* and the registry with its declared defaults stays as startup left it,
\* whatever invocations ran, failed or are suspended.
C18_InterleavedInvocationsAreIndependent ==
    /\ catoMcpToolWrappers = initCatoMcpToolWrappers(accountId)
    /\ maxResponseLength = DEFAULT_MAX_RESPONSE_LENGTH
    /\ pc = "done" => content = ContentAlone

C18_Witness ==
    /\ pc = "done"
    /\ stages[Len(stages)] = "serialize"
    /\ \E k \in 1..Len(stages) : stages[k] = "resumed"
    /\ toolName = "top_site_bandwidth_consumers"
    /\ "topN" \in DOMAIN graphqlVariables /\ graphqlVariables["topN"] = Num(1)
    /\ handlerResult.kind = "topConsumers"
    /\ handlerResult.showingTop = 1
    /\ \E frame \in pending : frame.toolName = "user_metrics"


(***************************************************************************)
(* The input transforms of the metrics tools, seen through the request     *)
(* handler: requests whose payloads range over the list arguments and the  *)
(* flags the transforms read and write.                                    *)
(***************************************************************************)
MetricsToolNames ==
    {"user_metrics", "user_metrics_timeseries", "top_users_bandwidth_consumers",
     "top_site_bandwidth_consumers"}

MetricsArgOrder ==
    <<"userIDs", "timeseries", "groupInterfaces", "groupDevices", "siteIDs",
      "annotationTypes">>

MetricsValuesOf ==
    [userIDs |-> {Absent, Null, Num(7), Arr(<<"[", "]">>), Arr(<<"[", "u1", "]">>),
                  Str(<<"[", "]">>)},
     timeseries |-> {Absent, Null, Arr(<<"[", "]">>), Arr(<<"[", "rtt", "]">>)},
     groupInterfaces |-> {Absent, Bool(FALSE), Bool(TRUE)},
     groupDevices |-> {Absent, Bool(FALSE)},
     siteIDs |-> {Absent, Arr(<<"[", "]">>), Arr(<<"[", "s1", "]">>)},
     annotationTypes |-> {Absent, Arr(<<"[", "]">>)}]

CallToolMetricsInput ==
    /\ pc = "idle"
    /\ \E name \in MetricsToolNames,
          userIDs \in MetricsValuesOf.userIDs,
          timeseries \in MetricsValuesOf.timeseries,
          groupInterfaces \in MetricsValuesOf.groupInterfaces,
          groupDevices \in MetricsValuesOf.groupDevices,
          siteIDs \in MetricsValuesOf.siteIDs,
          annotationTypes \in MetricsValuesOf.annotationTypes :
          CallTool(name, Payload(MetricsArgOrder,
                       [userIDs |-> userIDs, timeseries |-> timeseries,
                        groupInterfaces |-> groupInterfaces,
                        groupDevices |-> groupDevices, siteIDs |-> siteIDs,
                        annotationTypes |-> annotationTypes]))

NextMetricsInput == CallToolMetricsInput

SpecMetricsInput == Init /\ [][NextMetricsInput]_vars

\* the effective argument `key` is absent or an empty list
ListMissing(key) ==
    key \notin DOMAIN effectiveArgs \/ HasLengthZero(effectiveArgs[key])

\* the invocation ended in the input transform, nothing sent downstream, with
\* an error that carries `instruction`
FailedInInputTransformWith(instruction) ==
    /\ pc = "done"
    /\ stages = <<"lookup", "normalize", "inputTransform">>
    /\ content.isError
    /\ content.error.detail = <<instruction>>
    /\ requests = <<>>

\* the invocation is one the guards of C21 are about
RequiredListMissing ==
    /\ pc # "idle"
    /\ \/ toolName = "user_metrics" /\ ListMissing("userIDs")
       \/ /\ toolName = "user_metrics_timeseries"
          /\ ListMissing("userIDs") \/ ListMissing("timeseries")

\* C21 as stated: an invocation of user_metrics or user_metrics_timeseries
\* whose effective userIDs (or, for the timeseries tool, whose effective
\* timeseries) is absent or an empty list fails in the input transform,
\* before any downstream call, with the instruction to look up user IDs
\* with entity_lookup first.
C21_MissingListRefusedWithEntityLookup ==
    RequiredListMissing => FailedInInputTransformWith(USE_ENTITY_LOOKUP_FIRST)

\* C21 (amended): such an invocation fails in the input transform before any
\* downstream call; the error carries the entity_lookup instruction when
\* userIDs is absent or empty, and the instruction to specify the timeseries
\* metrics when userIDs is given and not empty and timeseries is absent or empty.
C21_MissingListRefusedWithItsInstruction ==
    RequiredListMissing =>
        IF ListMissing("userIDs")
        THEN FailedInInputTransformWith(USE_ENTITY_LOOKUP_FIRST)
        ELSE FailedInInputTransformWith(SPECIFY_TIMESERIES)

C21_Witness ==
    /\ toolName = "user_metrics_timeseries"
    /\ ~ListMissing("userIDs")
    /\ HasLengthZero(effectiveArgs["timeseries"])
    /\ FailedInInputTransformWith(SPECIFY_TIMESERIES)

\* the flags the input transform of the invoked tool forces
ForcedFlags ==
    IF toolName \in {"user_metrics", "user_metrics_timeseries"}
    THEN {"groupInterfaces", "groupDevices"}
    ELSE IF toolName = "top_users_bandwidth_consumers" THEN {"groupDevices"}
    ELSE {}

\* the caller's payload gives `value` for `key`
CallerGave(key, value) ==
    \E i \in 1..Len(toolArguments.entries) :
        toolArguments.entries[i] = [name |-> key, value |-> value]

\* C22: the parameters sent downstream carry every flag the tool forces as
\* true, whatever the caller supplied for it, false included.
C22_ForcedFlagsSentAsTrue ==
    pc = "awaiting" =>
        \A flag \in ForcedFlags :
            /\ flag \in DOMAIN requests[Len(requests)].variables
            /\ requests[Len(requests)].variables[flag] = Bool(TRUE)

C22_Witness ==
    /\ pc = "awaiting"
    /\ toolName = "top_users_bandwidth_consumers"
    /\ CallerGave("groupDevices", Bool(FALSE))
    /\ requests[Len(requests)].variables["groupDevices"] = Bool(TRUE)

\* the optional filter lists of the metrics queries
FilterLists == {"siteIDs", "userIDs", "annotationTypes"}

\* C23: after the metrics input transform each of siteIDs, userIDs and
\* annotationTypes is present: null when it was absent, the caller's list,
\* empty or not, when one was given; every other key keeps its value (the
\* forced flags are written by the step before this one).
C23_AbsentFiltersBecomeNullListsAreKept ==
    pc = "awaiting" =>
        /\ DOMAIN graphqlVariables = DOMAIN effectiveArgs \cup FilterLists \cup ForcedFlags
        /\ \A k \in FilterLists :
              /\ k \notin DOMAIN effectiveArgs => graphqlVariables[k] = Null
              /\ k \in DOMAIN effectiveArgs /\ effectiveArgs[k].t = "array"
                    => graphqlVariables[k] = effectiveArgs[k]
        /\ \A k \in DOMAIN effectiveArgs \ (FilterLists \cup ForcedFlags) :
              graphqlVariables[k] = effectiveArgs[k]

C23_Witness ==
    /\ pc = "awaiting"
    /\ "annotationTypes" \notin DOMAIN effectiveArgs
    /\ graphqlVariables["annotationTypes"] = Null
    /\ "siteIDs" \in DOMAIN effectiveArgs
    /\ HasLengthZero(effectiveArgs["siteIDs"])
    /\ graphqlVariables["siteIDs"] = effectiveArgs["siteIDs"]

(***************************************************************************)
(* Aggregation of a group's samples (metricsUtils.ts:26-31, 61-69;         *)
(* part_004:333-347).  A sample is a number, NaN, null or undefined; a     *)
(* result is a finite ratio, NaN or an infinity.                           *)
(***************************************************************************)
NaNValue == [t |-> "number", v |-> <<"NaN">>, n |-> 0]

Finite(num, den) == [class |-> "finite", num |-> num, den |-> den]

NotANumber == [class |-> "NaN", num |-> 0, den |-> 1]

Infinite(sign) == [class |-> "infinity", num |-> sign, den |-> 1]

\* isNaN(v): Number(undefined) is NaN, Number(null) is 0
isNaN(v) == v = Undefined \/ v = NaNValue

\* v !== null && v !== undefined && !isNaN(v)
IsValidSample(v) == v # Null /\ v # Undefined /\ ~isNaN(v)

AggregationNames == {"sum", "avg", "max", "min"}

\* AGGREGATION_FUNCTIONS[name](values): 0/0 is NaN, Math.max() is -Infinity
\* and Math.min() is Infinity
AGGREGATION_FUNCTIONS(name, values) ==
    IF name = "sum" THEN Finite(Sum(values), 1)
    ELSE IF name = "avg"
    THEN IF values = <<>> THEN NotANumber ELSE Finite(Sum(values), Len(values))
    ELSE IF name = "max"
    THEN IF values = <<>> THEN Infinite(-1) ELSE Finite(MathMax(values), 1)
    ELSE IF values = <<>> THEN Infinite(1) ELSE Finite(MathMin(values), 1)

\* mutant: the function is applied to an empty list too
aggregateValues_EmptyNotShortCut(values, aggregationFn) ==
    LET validValues == SelectSeq(values, IsValidSample)
        numbers == [i \in 1..Len(validValues) |-> validValues[i].n]
    IN  IF aggregationFn \in AggregationNames
        THEN AGGREGATION_FUNCTIONS(aggregationFn, numbers)
        ELSE AGGREGATION_FUNCTIONS("avg", numbers)

\* aggregateValues (metricsUtils.ts:61-69)
aggregateValues(values, aggregationFn) ==
    LET validValues == SelectSeq(values, IsValidSample)
        numbers == [i \in 1..Len(validValues) |-> validValues[i].n]
    IN  IF Len(validValues) = 0 THEN Finite(0, 1)
        ELSE IF aggregationFn \in AggregationNames
        THEN AGGREGATION_FUNCTIONS(aggregationFn, numbers)
        ELSE AGGREGATION_FUNCTIONS("avg", numbers)

\* the value aggregateRequestedMetrics assigns to aggregated[metric]
\* (part_004:335-340); `samples` is metrics.map(m => m[metric])
AggregatedMetric(samples, aggregationFn) ==
    aggregateValues(SelectSeq(samples, IsValidSample), aggregationFn)

MaxSamples == 3

SampleMetricValues == {Undefined, Null, NaNValue, Num(-2), Num(0), Num(3), Num(5)}

InitAggregateValues ==
    /\ Started
    /\ pc = "called"
    /\ \E len \in 0..MaxSamples, aggregationFn \in AggregationNames \cup {"median"} :
          \E samples \in [1..len -> SampleMetricValues] :
             call = [samples |-> samples, aggregationFn |-> aggregationFn]
    /\ ret = EmptyObject

CallAggregateRequestedMetrics ==
    /\ pc = "called"
    /\ "samples" \in DOMAIN call
    /\ ret' = AggregatedMetric(call.samples, call.aggregationFn)
    /\ pc' = "returned"
    /\ UNCHANGED <<catoMcpToolWrappers, toolName, toolArguments, effectiveArgs,
                   graphqlVariables, stages, errorLog, content, reply, requests,
                   handlerResult, maxResponseLength, pending, call>>

SpecAggregateValues == InitAggregateValues /\ [][CallAggregateRequestedMetrics]_vars

\* the positions of the samples that are numbers
NumberPositions ==
    {i \in 1..Len(call.samples) :
        call.samples[i].t = "number" /\ call.samples[i] # NaNValue}

RECURSIVE SumOfSamples(_)
SumOfSamples(positions) ==
    IF positions = {} THEN 0
    ELSE LET i == CHOOSE i \in positions : TRUE
         IN  call.samples[i].n + SumOfSamples(positions \ {i})

\* C24: the sum, avg, max or min of a group's samples is that of exactly the
\* samples that are neither null (or missing) nor NaN, and it is 0, never
\* NaN or an infinity, when no such sample remains.
C24_AggregateOfValidSamples ==
    pc = "returned" /\ call.aggregationFn \in AggregationNames =>
        /\ ret.class = "finite"
        /\ IF NumberPositions = {} THEN ret = Finite(0, 1)
           ELSE IF call.aggregationFn = "sum"
           THEN ret = Finite(SumOfSamples(NumberPositions), 1)
           ELSE IF call.aggregationFn = "avg"
           THEN ret = Finite(SumOfSamples(NumberPositions), Cardinality(NumberPositions))
           ELSE /\ ret.den = 1
                /\ \E i \in NumberPositions : call.samples[i].n = ret.num
                /\ \A i \in NumberPositions :
                      IF call.aggregationFn = "max" THEN call.samples[i].n <= ret.num
                      ELSE call.samples[i].n >= ret.num

C24_Witness ==
    /\ pc = "returned"
    /\ call.aggregationFn = "avg"
    /\ call.samples = <<Null, NaNValue, Undefined>>
    /\ ret = Finite(0, 1)

(***************************************************************************)
(* The derived host utilization series (part_014:378-385, 424-450;         *)
(* UserMetricsTimeseriesTool.ts:211-238).  A series is the entry of        *)
(* siteMetrics / userTimeseries for a label: absent, or an object whose    *)
(* data is a list of points, a missing point being null or undefined.      *)
(***************************************************************************)
NoSeries == [t |-> "undefined", data |-> <<>>]

Series(data) == [t |-> "object", data |-> data]

\* the key is not written
NotAdded == [t |-> "undefined"]

\* the function returned null
NullMetric == [t |-> "null"]

\* the number a whole ratio is
AsNumber(q) == Num(q.num \div q.den)

\* hostLimitData[i][1] || 1
OrOne(x) == IF Falsy(x) THEN 1 ELSE x.n

\* mutant: a limit of 0 is passed on as it is
UtilizationPoint_LimitNotDefaulted(countPoint, limitPoint) ==
    Point(countPoint.timestamp,
          AsNumber(calculateHostUtilization(Num(OrZero(countPoint.value)),
                                            Num(OrZero(limitPoint.value)))))

\* the point pushed for one index (part_014:430-434)
UtilizationPoint(countPoint, limitPoint) ==
    Point(countPoint.timestamp,
          AsNumber(calculateHostUtilization(Num(OrZero(countPoint.value)),
                                            Num(OrOne(limitPoint.value)))))

\* the for loop from index i on (part_014:428-436)
RECURSIVE UtilizationFrom(_, _, _, _)
UtilizationFrom(hostCountData, hostLimitData, i, max) ==
    IF i > max THEN <<>>
    ELSE (IF ~hostCountData[i].missing /\ ~hostLimitData[i].missing
          THEN <<UtilizationPoint(hostCountData[i], hostLimitData[i])>>
          ELSE <<>>)
         \o UtilizationFrom(hostCountData, hostLimitData, i + 1, max)

\* the object built from a non-empty utilizationData
UtilizationMetric(utilizationData) ==
    [t |-> "object", label |-> "hostUtilizationPct", units |-> "percent", sum |-> Null,
     summary |-> calculateSummary(Points(utilizationData)),
     buckets |-> Len(utilizationData), data |-> utilizationData]

\* calculateHostUtilizationTimeseries (part_014:424-450)
calculateHostUtilizationTimeseries(hostCountData, hostLimitData) ==
    LET max == IF Len(hostCountData) < Len(hostLimitData)
               THEN Len(hostCountData) ELSE Len(hostLimitData)
        utilizationData == UtilizationFrom(hostCountData, hostLimitData, 1, max)
    IN  IF Len(utilizationData) > 0 THEN UtilizationMetric(utilizationData)
        ELSE NullMetric

\* siteMetrics.hostUtilizationPct after part_014:378-385
siteHostUtilization(hostCount, hostLimit) ==
    IF hostCount.t = "object" /\ hostLimit.t = "object"
    THEN calculateHostUtilizationTimeseries(hostCount.data, hostLimit.data)
    ELSE NotAdded

\* userTimeseries.hostUtilizationPct after UserMetricsTimeseriesTool.ts:211-238
userHostUtilization(hostCount, hostLimit) ==
    IF hostCount.t = "object" /\ hostLimit.t = "object"
    THEN LET max == IF Len(hostCount.data) < Len(hostLimit.data)
                    THEN Len(hostCount.data) ELSE Len(hostLimit.data)
             utilizationData == UtilizationFrom(hostCount.data, hostLimit.data, 1, max)
         IN  IF Len(utilizationData) > 0 THEN UtilizationMetric(utilizationData)
             ELSE NotAdded
    ELSE NotAdded

\* host counts, and limits that divide 100 (so that the percentage is whole)
SampleCountValues == {Null, Num(0), Num(3)}

SampleLimitValues == {Null, Num(0), Num(1), Num(4)}

\* the series of length len whose points, present or missing, carry the
\* time of their bucket
SeriesOf(len, values, millis) ==
    {Series([i \in 1..len |->
                IF f[i] = Absent THEN MissingPoint
                ELSE PointAt(Timestamp(i, millis), f[i])]) :
        f \in [1..len -> values \cup {Absent}]}

InitUtilization ==
    /\ Started
    /\ pc = "called"
    /\ \E countLen \in 0..MaxBuckets, limitLen \in 0..MaxBuckets :
          \E hostCount \in {NoSeries} \cup SeriesOf(countLen, SampleCountValues, 0),
             hostLimit \in {NoSeries} \cup SeriesOf(limitLen, SampleLimitValues, 500) :
             call = [hostCount |-> hostCount, hostLimit |-> hostLimit]
    /\ ret = EmptyObject

CallCalculateHostUtilizationTimeseries ==
    /\ pc = "called"
    /\ "hostLimit" \in DOMAIN call /\ "hostCount" \in DOMAIN call
    /\ call.hostCount.t \in {"undefined", "object"}
    /\ ret' = [site |-> siteHostUtilization(call.hostCount, call.hostLimit),
               user |-> userHostUtilization(call.hostCount, call.hostLimit)]
    /\ pc' = "returned"
    /\ UNCHANGED <<catoMcpToolWrappers, toolName, toolArguments, effectiveArgs,
                   graphqlVariables, stages, errorLog, content, reply, requests,
                   handlerResult, maxResponseLength, pending, call>>

SpecUtilization == InitUtilization /\ [][CallCalculateHostUtilizationTimeseries]_vars

\* the indexes below both lengths at which both series have a point
BothPresent ==
    {i \in 1..Len(call.hostCount.data) \cap 1..Len(call.hostLimit.data) :
        ~call.hostCount.data[i].missing /\ ~call.hostLimit.data[i].missing}

\* the position in the derived series of index i
UtilizationPosition(i) == Cardinality({j \in BothPresent : j <= i})

\* max(limit, 1) and the count, a null value counting as 0
LimitOrOne(i) ==
    IF call.hostLimit.data[i].value.t = "number" /\ call.hostLimit.data[i].value.n > 1
    THEN call.hostLimit.data[i].value.n ELSE 1

CountOrZero(i) ==
    IF call.hostCount.data[i].value.t = "number" THEN call.hostCount.data[i].value.n ELSE 0

Flag(kind, value, threshold) == [flag |-> kind, value |-> value, threshold |-> threshold]

\* a > b for two values: false unless both are numbers
GreaterThan(a, b) == a.t = "number" /\ b.t = "number" /\ a # NaNValue /\ a.n > b.n

\* the flag pushed for `metric` when the guard holds, none otherwise
FlagIf(guard, kind, metrics, metric, threshold) ==
    IF guard /\ GreaterThan(Get(metrics, metric), threshold)
    THEN <<Flag(kind, Get(metrics, metric), threshold)>> ELSE <<>>

\* generateHealthFlags (metricsUtils.ts:103-130)
generateHealthFlags(metrics, thresholds) ==
    LET rtt == Get(thresholds, "rtt")
        packetLoss == Get(thresholds, "packetLoss")
        jitter == Get(thresholds, "jitter")
        hostUtilization == Get(thresholds, "hostUtilization")
    IN  FlagIf(~Falsy(rtt), "High RTT", metrics, "rtt", rtt)
        \o FlagIf(~Falsy(packetLoss), "High upstream packet loss", metrics,
                  "lostUpstreamPcnt", packetLoss)
        \o FlagIf(~Falsy(packetLoss), "High downstream packet loss", metrics,
                  "lostDownstreamPcnt", packetLoss)
        \o FlagIf(~Falsy(jitter), "High upstream jitter", metrics, "jitterUpstream", jitter)
        \o FlagIf(~Falsy(jitter), "High downstream jitter", metrics, "jitterDownstream",
                  jitter)
        \o FlagIf(~Falsy(hostUtilization), "High capacity utilization", metrics,
                  "hostUtilizationPct", hostUtilization)

\* aggregated.healthFlags as aggregateMetrics assigns it (part_004:286, 311):
\* thresholds is variables.thresholds || {}
healthFlags(aggregated, variables) ==
    generateHealthFlags(aggregated,
                        IF "thresholds" \in DOMAIN variables THEN variables.thresholds
                        ELSE EmptyObject)

\* the metrics a threshold is compared with, and the flag of each
ThresholdMetrics ==
    [rtt |-> {"rtt"}, packetLoss |-> {"lostUpstreamPcnt", "lostDownstreamPcnt"},
     jitter |-> {"jitterUpstream", "jitterDownstream"},
     hostUtilization |-> {"hostUtilizationPct"}]

FlagOf ==
    [rtt |-> "High RTT", lostUpstreamPcnt |-> "High upstream packet loss",
     lostDownstreamPcnt |-> "High downstream packet loss",
     jitterUpstream |-> "High upstream jitter",
     jitterDownstream |-> "High downstream jitter",
     hostUtilizationPct |-> "High capacity utilization"]

\* the object whose keys are those f does not map to Absent
ObjectOf(f) == [k \in {j \in DOMAIN f : f[j] # Absent} |-> f[k]]

SampleThresholds == {Absent, Num(0), Num(5)}

InitHealthFlags ==
    /\ Started
    /\ pc = "called"
    /\ \E rtt, lostUpstreamPcnt, hostUtilizationPct \in {Absent, Num(0), Num(5), Num(9)},
          lostDownstreamPcnt, jitterUpstream, jitterDownstream \in {Absent, Num(9)} :
          \E thresholds \in {Absent} \cup [DOMAIN ThresholdMetrics -> SampleThresholds] :
             call = [aggregated |->
                        ObjectOf([rtt |-> rtt, lostUpstreamPcnt |-> lostUpstreamPcnt,
                                  lostDownstreamPcnt |-> lostDownstreamPcnt,
                                  jitterUpstream |-> jitterUpstream,
                                  jitterDownstream |-> jitterDownstream,
                                  hostUtilizationPct |-> hostUtilizationPct]),
                     variables |->
                        IF thresholds = Absent THEN EmptyObject
                        ELSE [thresholds |-> ObjectOf(thresholds)]]
    /\ ret = EmptyObject

CallGenerateHealthFlags ==
    /\ pc = "called"
    /\ "aggregated" \in DOMAIN call
    /\ ret' = healthFlags(call.aggregated, call.variables)
    /\ pc' = "returned"
    /\ UNCHANGED <<catoMcpToolWrappers, toolName, toolArguments, effectiveArgs,
                   graphqlVariables, stages, errorLog, content, reply, requests,
                   handlerResult, maxResponseLength, pending, call>>

SpecHealthFlags == InitHealthFlags /\ [][CallGenerateHealthFlags]_vars

\* the thresholds the caller supplied
SuppliedThresholds ==
    IF "thresholds" \in DOMAIN call.variables THEN call.variables.thresholds
    ELSE EmptyObject

\* the number of flags emitted for `metric`
FlagsFor(metric) == Cardinality({i \in 1..Len(ret) : ret[i].flag = FlagOf[metric]})

\* C26: for each threshold the caller supplied, one flag for each of its
\* aggregated metrics that is strictly greater than it, and none for a
\* metric that is not or for a threshold that was not supplied; this for
\* every supplied value, 0 included.
C26_OneFlagPerBreach ==
    pc = "returned" =>
        \A threshold \in DOMAIN ThresholdMetrics : \A metric \in ThresholdMetrics[threshold] :
            FlagsFor(metric) =
                IF /\ threshold \in DOMAIN SuppliedThresholds
                   /\ metric \in DOMAIN call.aggregated
                   /\ call.aggregated[metric].n > SuppliedThresholds[threshold].n
                THEN 1 ELSE 0

\* C26 for thresholds other than 0
C26_OneFlagPerBreachOfNonZeroThreshold ==
    pc = "returned" =>
        \A threshold \in DOMAIN ThresholdMetrics : \A metric \in ThresholdMetrics[threshold] :
            FlagsFor(metric) =
                IF /\ threshold \in DOMAIN SuppliedThresholds
                   /\ SuppliedThresholds[threshold] # Num(0)
                   /\ metric \in DOMAIN call.aggregated
                   /\ call.aggregated[metric].n > SuppliedThresholds[threshold].n
                THEN 1 ELSE 0

(***************************************************************************)
(* annotation_event_counter (annotationEventCounterTool.ts:18-27, 51-54,   *)
(* 159-301): the response transform on a valid reply, without the          *)
(* per-event details of includeTimestamps.  A site is [id, name,           *)
(* interfaces], its name "" when info has none; an interface is [name,     *)
(* annotations]; an annotation is its type.                                *)
(***************************************************************************)
DEFAULT_ANNOTATION_TYPES == <<"popChange", "remoteIPChange", "roleChange">>

DEFAULT_GROUP_BY == "site"

DEFAULT_MIN_EVENT_COUNT == 1

\* `${site.info?.name || site.id}`
SiteLabel(site) == IF site.name = "" THEN site.id ELSE site.name

\* getGroupKey (annotationEventCounterTool.ts:18-27)
getGroupKey(site, intf, annotation, groupBy) ==
    IF groupBy = "site" THEN SiteLabel(site)
    ELSE IF groupBy = "interface" THEN SiteLabel(site) \o ":" \o intf.name
    ELSE IF groupBy = "annotationType" THEN annotation
    ELSE ""

\* annotationTypes.includes(type)
Includes(list, x) == \E i \in 1..Len(list) : list[i] = x

\* the selected annotations of one interface, in order, each with its group key
RECURSIVE EventsOfInterface(_, _, _, _, _)
EventsOfInterface(site, intf, a, annotationTypes, groupBy) ==
    IF a > Len(intf.annotations) THEN <<>>
    ELSE (IF Includes(annotationTypes, intf.annotations[a])
          THEN <<[groupKey |-> getGroupKey(site, intf, intf.annotations[a], groupBy),
                  annotationType |-> intf.annotations[a],
                  site |-> SiteLabel(site), interfaceName |-> intf.name]>>
          ELSE <<>>)
         \o EventsOfInterface(site, intf, a + 1, annotationTypes, groupBy)

RECURSIVE EventsOfSite(_, _, _, _)
EventsOfSite(site, i, annotationTypes, groupBy) ==
    IF i > Len(site.interfaces) THEN <<>>
    ELSE EventsOfInterface(site, site.interfaces[i], 1, annotationTypes, groupBy)
         \o EventsOfSite(site, i + 1, annotationTypes, groupBy)

\* the events pushed by the three nested loops (lines 173-178)
RECURSIVE EventsOfSites(_, _, _, _)
EventsOfSites(sites, s, annotationTypes, groupBy) ==
    IF s > Len(sites) THEN <<>>
    ELSE EventsOfSite(sites[s], 1, annotationTypes, groupBy)
         \o EventsOfSites(sites, s + 1, annotationTypes, groupBy)

\* the position of the group of key `groupKey`, 0 when there is none
GroupPosition(eventCounts, groupKey) ==
    LET hits == {i \in 1..Len(eventCounts) : eventCounts[i].groupKey = groupKey}
    IN  IF hits = {} THEN 0 ELSE CHOOSE i \in hits : TRUE

\* eventsByType[type]++, from 0 when the type is new (lines 214-217)
CountType(eventsByType, type) ==
    [t \in DOMAIN eventsByType \cup {type} |->
        IF t = type
        THEN (IF t \in DOMAIN eventsByType THEN eventsByType[t] ELSE 0) + 1
        ELSE eventsByType[t]]

\* mutant: a type is counted once per group
CountEvent_TypeCountedOnce(eventCounts, event, groupBy) ==
    LET at == GroupPosition(eventCounts, event.groupKey)
        NoCounts == [t \in {} |-> 0]
    IN  IF at = 0
        THEN Append(eventCounts,
                    [groupKey |-> event.groupKey, groupType |-> groupBy, totalEvents |-> 1,
                     eventsByType |-> CountType(NoCounts, event.annotationType)])
        ELSE [eventCounts EXCEPT
                 ![at].totalEvents = @ + 1,
                 ![at].eventsByType = [t \in DOMAIN @ \cup {event.annotationType} |-> 1]]

\* the body of the loops for one selected annotation (lines 181-217);
\* eventCounts keeps its groups in the order they were created
CountEvent(eventCounts, event, groupBy) ==
    LET at == GroupPosition(eventCounts, event.groupKey)
        NoCounts == [t \in {} |-> 0]
    IN  IF at = 0
        THEN Append(eventCounts,
                    [groupKey |-> event.groupKey, groupType |-> groupBy, totalEvents |-> 1,
                     eventsByType |-> CountType(NoCounts, event.annotationType)])
        ELSE [eventCounts EXCEPT
                 ![at].totalEvents = @ + 1,
                 ![at].eventsByType = CountType(@, event.annotationType)]

RECURSIVE CountEvents(_, _, _)
CountEvents(events, n, groupBy) ==
    IF n = 0 THEN <<>> ELSE CountEvent(CountEvents(events, n - 1, groupBy), events[n], groupBy)

\* mutant: a group must exceed the minimum
filterEventCountsByMinimum_Strict(eventCounts, minEventCount) ==
    SelectSeq(eventCounts, LAMBDA group : group.totalEvents > minEventCount)

\* filterEventCountsByMinimum (annotationEventCounterTool.ts:51-54)
filterEventCountsByMinimum(eventCounts, minEventCount) ==
    SelectSeq(eventCounts, LAMBDA group : group.totalEvents >= minEventCount)

\* the stable sort by (a, b) => b.totalEvents - a.totalEvents (line 272)
RECURSIVE InsertByTotalEvents(_, _)
InsertByTotalEvents(sorted, x) ==
    IF sorted = <<>> THEN <<x>>
    ELSE IF x.totalEvents - Head(sorted).totalEvents <= 0
    THEN <<Head(sorted)>> \o InsertByTotalEvents(Tail(sorted), x)
    ELSE <<x>> \o sorted

RECURSIVE SortByTotalEvents(_, _)
SortByTotalEvents(items, n) ==
    IF n = 0 THEN <<>> ELSE InsertByTotalEvents(SortByTotalEvents(items, n - 1), items[n])

\* eventTypeDistribution (lines 276-279)
RECURSIVE TypeDistribution(_, _)
TypeDistribution(events, n) ==
    IF n = 0 THEN [t \in {} |-> 0]
    ELSE CountType(TypeDistribution(events, n - 1), events[n].annotationType)

\* handleResponse from line 163 on; eventCounts is its local of that name
annotationEventCounterHandleResponse(variables, sites) ==
    LET groupBy == IF variables.groupBy = "" THEN DEFAULT_GROUP_BY ELSE variables.groupBy
        annotationTypes == IF variables.annotationTypes.t = "array"
                           THEN variables.annotationTypes.items
                           ELSE DEFAULT_ANNOTATION_TYPES
        minEventCount == IF Falsy(variables.minEventCount) THEN DEFAULT_MIN_EVENT_COUNT
                         ELSE variables.minEventCount.n
        events == EventsOfSites(sites, 1, annotationTypes, groupBy)
        eventCounts == CountEvents(events, Len(events), groupBy)
        kept == filterEventCountsByMinimum(eventCounts, minEventCount)
        mapped == [i \in 1..Len(kept) |->
                      [group |-> kept[i].groupKey, groupType |-> kept[i].groupType,
                       totalEvents |-> kept[i].totalEvents,
                       eventsByType |-> kept[i].eventsByType]]
        results == SortByTotalEvents(mapped, Len(mapped))
    IN  [eventCounts |-> eventCounts,
         data |-> [summary |-> [totalEvents |-> Len(events), groupBy |-> groupBy,
                                annotationTypesAnalyzed |-> annotationTypes,
                                eventTypeDistribution |->
                                    TypeDistribution(events, Len(events)),
                                resultsReturned |-> Len(results)],
                   results |-> results]]

SampleAnnotations ==
    {<<>>, <<"popChange">>, <<"generic", "roleChange">>, <<"popChange", "popChange">>}

\* the interfaces of a site: up to two, named by their position
SampleInterfaces ==
    {<<>>} \cup {<<[name |-> "wan1", annotations |-> a]>> : a \in SampleAnnotations}
    \cup {<<[name |-> "wan1", annotations |-> a], [name |-> "wan2", annotations |-> b]>> :
             a \in SampleAnnotations, b \in SampleAnnotations}

InitEventCounter ==
    /\ Started
    /\ pc = "called"
    /\ \E groupBy \in {"", "site", "interface", "annotationType"},
          annotationTypes \in {Null, Collection(<<"popChange">>),
                               Collection(<<"generic", "roleChange">>)},
          minEventCount \in {Undefined, Num(0), Num(2), Num(3)} :
          \E sites \in {<<>>}
                \cup {<<[id |-> "s1", name |-> "A", interfaces |-> i]>> :
                         i \in SampleInterfaces}
                \cup {<<[id |-> "s1", name |-> "A", interfaces |-> i],
                        [id |-> "s2", name |-> n, interfaces |-> j]>> :
                         i \in SampleInterfaces, j \in SampleInterfaces, n \in {"", "A"}} :
             call = [variables |-> [groupBy |-> groupBy, annotationTypes |-> annotationTypes,
                                    minEventCount |-> minEventCount],
                     sites |-> sites]
    /\ ret = EmptyObject

CallAnnotationEventCounter ==
    /\ pc = "called"
    /\ "sites" \in DOMAIN call
    /\ ret' = annotationEventCounterHandleResponse(call.variables, call.sites)
    /\ pc' = "returned"
    /\ UNCHANGED <<catoMcpToolWrappers, toolName, toolArguments, effectiveArgs,
                   graphqlVariables, stages, errorLog, content, reply, requests,
                   handlerResult, maxResponseLength, pending, call>>

SpecEventCounter == InitEventCounter /\ [][CallAnnotationEventCounter]_vars

\* the types the caller selected, the defaults when none were given
SelectedTypes ==
    IF call.variables.annotationTypes.t = "array"
    THEN {call.variables.annotationTypes.items[i] :
             i \in 1..Len(call.variables.annotationTypes.items)}
    ELSE {"popChange", "remoteIPChange", "roleChange"}

\* the minimum the caller set, 1 when none was set
CallerMinimum ==
    IF call.variables.minEventCount.t = "number" THEN call.variables.minEventCount.n ELSE 1

\* where the reply has an annotation of a selected type: <<site, interface, annotation>>
SelectedPositions ==
    {p \in (1..2) \X (1..2) \X (1..2) :
        /\ p[1] <= Len(call.sites)
        /\ p[2] <= Len(call.sites[p[1]].interfaces)
        /\ p[3] <= Len(call.sites[p[1]].interfaces[p[2]].annotations)
        /\ call.sites[p[1]].interfaces[p[2]].annotations[p[3]] \in SelectedTypes}

TypeAt(p) == call.sites[p[1]].interfaces[p[2]].annotations[p[3]]

\* the group an annotation belongs to under the caller's grouping
GroupAt(p) ==
    LET site == call.sites[p[1]]
        label == IF site.name = "" THEN site.id ELSE site.name
    IN  IF call.variables.groupBy \in {"", "site"} THEN label
        ELSE IF call.variables.groupBy = "interface"
        THEN label \o ":" \o site.interfaces[p[2]].name
        ELSE TypeAt(p)

\* the number of selected annotations of a group
SelectedTotalOf(group) == Cardinality({p \in SelectedPositions : GroupAt(p) = group})

\* C27: only annotations of the selected types are counted; a group is
\* returned if and only if its total is at least the caller's minimum; the
\* returned groups are in order of non-increasing total.
C27_SelectedCountedFilteredSorted ==
    pc = "returned" =>
        LET results == ret.data.results IN
        /\ ret.data.summary.totalEvents = Cardinality(SelectedPositions)
        /\ \A i \in 1..Len(results) :
              /\ results[i].totalEvents = SelectedTotalOf(results[i].group)
              /\ DOMAIN results[i].eventsByType \subseteq SelectedTypes
              /\ \A j \in 1..Len(results) : results[i].group = results[j].group => i = j
        /\ {results[i].group : i \in 1..Len(results)} =
              {GroupAt(p) : p \in {q \in SelectedPositions :
                                      SelectedTotalOf(GroupAt(q)) >= CallerMinimum}}
        /\ \A i, j \in 1..Len(results) :
              i < j => results[i].totalEvents >= results[j].totalEvents

C27_Witness ==
    /\ pc = "returned"
    /\ call.variables.groupBy = "annotationType"
    /\ call.variables.minEventCount = Num(2)
    /\ Len(ret.eventCounts) = 2
    /\ ret.eventCounts[1].groupKey = "roleChange"
    /\ ret.eventCounts[1].totalEvents = 1
    /\ Len(ret.data.results) = 1
    /\ ret.data.results[1].group = "popChange"
    /\ ret.data.results[1].totalEvents = 3

RECURSIVE SumOfCounts(_)
SumOfCounts(counts) ==
    IF DOMAIN counts = {} THEN 0
    ELSE LET t == CHOOSE t \in DOMAIN counts : TRUE
         IN  counts[t] + SumOfCounts([u \in DOMAIN counts \ {t} |-> counts[u]])

RECURSIVE SumOfTotals(_)
SumOfTotals(groups) ==
    IF groups = <<>> THEN 0 ELSE Head(groups).totalEvents + SumOfTotals(Tail(groups))

\* C28: in every group the per-type counts add up to the group's total; the
\* summary's total equals the sum of the totals of all groups before the
\* minimum filter and the sum of eventTypeDistribution.
C28_CountsAddUp ==
    pc = "returned" =>
        /\ \A i \in 1..Len(ret.eventCounts) :
              SumOfCounts(ret.eventCounts[i].eventsByType) = ret.eventCounts[i].totalEvents
        /\ \A i \in 1..Len(ret.data.results) :
              SumOfCounts(ret.data.results[i].eventsByType) = ret.data.results[i].totalEvents
        /\ ret.data.summary.totalEvents = SumOfTotals(ret.eventCounts)
        /\ ret.data.summary.totalEvents = SumOfCounts(ret.data.summary.eventTypeDistribution)

C28_Witness ==
    /\ pc = "returned"
    /\ call.variables.groupBy = "interface"
    /\ call.variables.minEventCount = Num(3)
    /\ Len(ret.eventCounts) = 2
    /\ ret.data.results = <<>>
    /\ ret.data.summary.totalEvents = 4
    /\ DOMAIN ret.data.summary.eventTypeDistribution = {"generic", "roleChange"}

(***************************************************************************)
(* sites_by_location on snapshots of a few sites                           *)
(* (sitesByLocationTool.ts:81-122).                                        *)
(***************************************************************************)
MaxSnapshotSites == 3

\* sites with or without a PoP, a country and a state; a PoP can bear the
\* name a country has
SampleSnapshotSites ==
    {SiteAt("s", popName, countryName, countryStateName, Undefined) :
        popName \in {Undefined, Str(<<"NYC">>)},
        countryName \in {Undefined, Str(<<"US">>), Str(<<"NYC">>)},
        countryStateName \in {Undefined, Str(<<"NY">>)}}
    \cup {[SiteAt("s", popName, Undefined, Undefined, Undefined) EXCEPT !.info = NoInfo] :
             popName \in {Undefined, Str(<<"NYC">>)}}

InitSitesByLocation ==
    /\ Started
    /\ pc = "called"
    /\ \E len \in 0..MaxSnapshotSites : \E allSites \in [1..len -> SampleSnapshotSites] :
          call = [allSites |-> allSites]
    /\ ret = EmptyObject

CallSitesByLocationHandleResponse ==
    /\ pc = "called"
    /\ "allSites" \in DOMAIN call
    /\ ret' = sitesByLocationHandleResponse(
                  EmptyObject,
                  Envelope(Data([accountSnapshot |->
                                    Root(Collection(call.allSites), NoCollection)]),
                           NoErrors)).value
    /\ pc' = "returned"
    /\ UNCHANGED <<catoMcpToolWrappers, toolName, toolArguments, effectiveArgs,
                   graphqlVariables, stages, errorLog, content, reply, requests,
                   handlerResult, maxResponseLength, pending, call>>

SpecSitesByLocation == InitSitesByLocation /\ [][CallSitesByLocationHandleResponse]_vars

\* the sites of the snapshot whose derived location is `location`
SitesAtLocation(location) ==
    {i \in 1..Len(call.allSites) : buildLocationString(call.allSites[i]) = location}

\* the sites of the snapshot served by `pop`, those without a PoP under "Unknown"
SitesAtPop(pop) ==
    {i \in 1..Len(call.allSites) :
        (IF call.allSites[i].popName.t = "string" /\ call.allSites[i].popName.v # <<>>
         THEN call.allSites[i].popName.v ELSE <<"Unknown">>) = pop}

RECURSIVE SumOfMap(_)
SumOfMap(map) ==
    IF DOMAIN map = {} THEN 0
    ELSE LET k == CHOOSE k \in DOMAIN map : TRUE
         IN  map[k] + SumOfMap([j \in DOMAIN map \ {k} |-> map[j]])

\* the half of C29 about PoP names
PopNameCountsAreExact ==
    pc = "returned" =>
        /\ \A pop \in DOMAIN ret.sitesCountByPopName :
              ret.sitesCountByPopName[pop] = Cardinality(SitesAtPop(pop))
        /\ SumOfMap(ret.sitesCountByPopName) = ret.totalSitesCount

\* C29: sitesCountByLocation[location] is the number of sites whose derived
\* location is that string, sitesCountByPopName[pop] the number of sites with
\* that PoP (missing ones under "Unknown"), and each map sums to
\* totalSitesCount.
C29_CountsPerLocationAndPop ==
    pc = "returned" =>
        /\ \A location \in DOMAIN ret.sitesCountByLocation :
              ret.sitesCountByLocation[location] = Cardinality(SitesAtLocation(location))
        /\ \A pop \in DOMAIN ret.sitesCountByPopName :
              ret.sitesCountByPopName[pop] = Cardinality(SitesAtPop(pop))
        /\ SumOfMap(ret.sitesCountByLocation) = ret.totalSitesCount
        /\ SumOfMap(ret.sitesCountByPopName) = ret.totalSitesCount

(***************************************************************************)
(* entity_lookup (part_010:3, 125-147): the input transform and the        *)
(* response transform of one lookup.  The items of a reply are modelled by *)
(* their number.                                                           *)
(***************************************************************************)
MAX_LIMIT == 1000

\* mutant: only a missing limit is set
handleVariables_NoCap(variables) ==
    IF Get(variables, "limit") = Undefined
    THEN Put(variables, "limit", Num(MAX_LIMIT)) ELSE variables

\* handleVariables (part_010:125-130)
handleVariables(variables) ==
    IF Get(variables, "limit") = Undefined \/ GreaterThan(Get(variables, "limit"), Num(MAX_LIMIT))
    THEN Put(variables, "limit", Num(MAX_LIMIT)) ELSE variables

\* the message of the notice (part_010:141)
LimitedNotice(limit, total) ==
    "Clearly and politely notify the user that in order to comply with the models context window, the amount of entities was limited to "
    \o NumberToString(limit) \o " out of " \o NumberToString(total) \o " items"

\* response.data.entityLookup: null, or { total, items }
NoLookup == [t |-> "null", total |-> Undefined, itemsCount |-> 0]

Lookup(total, itemsCount) == [t |-> "object", total |-> total, itemsCount |-> itemsCount]

\* handleResponse (part_010:132-147): the response, its errors replaced by
\* the notice when the condition holds
entityLookupHandleResponse(variables, response) ==
    IF response.entityLookup.t = "object"
    THEN LET from == OrZero(Get(variables, "from"))
             total == response.entityLookup.total
             itemsCount == response.entityLookup.itemsCount
         IN  IF /\ from = 0
                /\ Get(variables, "limit") = Num(MAX_LIMIT)
                /\ GreaterThan(total, Num(itemsCount))
             THEN [response EXCEPT
                      !.errors = Errors(<<LimitedNotice(variables["limit"].n, total.n)>>)]
             ELSE response
    ELSE response

SampleLimits == {Absent, Num(0), Num(1), Num(999), Num(1000), Num(1001), Num(5000)}

SampleOffsets == {Absent, Num(0), Num(10)}

SampleLookups ==
    {NoLookup} \cup {Lookup(total, itemsCount) :
                        total \in {Undefined, Num(0), Num(1), Num(1000), Num(2500)},
                        itemsCount \in {0, 1, 1000}}

InitEntityLookup ==
    /\ Started
    /\ pc = "called"
    /\ \E limit \in SampleLimits, from \in SampleOffsets :
          call = [variables |-> ObjectOf([type |-> Str(<<"vpnUser">>), limit |-> limit,
                                          from |-> from])]
    /\ ret = EmptyObject

\* the input transform; the variables it returns are the ones sent
CallHandleVariables ==
    /\ pc = "called"
    /\ "variables" \in DOMAIN call /\ "type" \in DOMAIN call.variables
    /\ ret' = [variables |-> handleVariables(call.variables)]
    /\ pc' = "sent"
    /\ UNCHANGED <<catoMcpToolWrappers, toolName, toolArguments, effectiveArgs,
                   graphqlVariables, stages, errorLog, content, reply, requests,
                   handlerResult, maxResponseLength, pending, call>>

\* the response transform on the reply to those variables
CallEntityLookupHandleResponse ==
    /\ pc = "sent"
    /\ \E entityLookup \in SampleLookups, errors \in {NoErrors, Errors(<<"m1">>)} :
          LET response == [entityLookup |-> entityLookup, errors |-> errors] IN
          ret' = [variables |-> ret.variables, received |-> response,
                  response |-> entityLookupHandleResponse(ret.variables, response)]
    /\ pc' = "returned"
    /\ UNCHANGED <<catoMcpToolWrappers, toolName, toolArguments, effectiveArgs,
                   graphqlVariables, stages, errorLog, content, reply, requests,
                   handlerResult, maxResponseLength, pending, call>>

NextEntityLookup == CallHandleVariables \/ CallEntityLookupHandleResponse

SpecEntityLookup == InitEntityLookup /\ [][NextEntityLookup]_vars

\* the response carries the notice that the results were limited
HasLimitedNotice ==
    /\ ret.response.errors.t = "array"
    /\ \E i \in 1..Len(ret.response.errors.messages) :
          /\ Len(ret.response.errors.messages[i]) >= 8
          /\ SubSeq(ret.response.errors.messages[i], 1, 8) = "Clearly "

\* no paging offset was used
NoOffset == "from" \notin DOMAIN call.variables \/ call.variables["from"] = Num(0)

\* fewer items came back than the reply's total
FewerThanTotal ==
    /\ ret.received.entityLookup.t = "object"
    /\ ret.received.entityLookup.total.t = "number"
    /\ ret.received.entityLookup.itemsCount < ret.received.entityLookup.total.n

\* C30: the limit sent is defined and at most 1000: 1000 for an absent limit
\* or one above 1000, the caller's limit otherwise; the notice is attached
\* exactly when no offset was used, the limit sent is 1000 and fewer items
\* were returned than the reported total.
C30_LimitCappedNoticeWhenCut ==
    /\ pc \in {"sent", "returned"} =>
          /\ "limit" \in DOMAIN ret.variables
          /\ ret.variables["limit"].t = "number"
          /\ ret.variables["limit"].n <= 1000
          /\ ret.variables["limit"] =
                IF "limit" \notin DOMAIN call.variables \/ call.variables["limit"].n > 1000
                THEN Num(1000) ELSE call.variables["limit"]
    /\ pc = "returned" =>
          (HasLimitedNotice <=>
              NoOffset /\ ret.variables["limit"] = Num(1000) /\ FewerThanTotal)

C30_Witness ==
    /\ pc = "returned"
    /\ Get(call.variables, "limit") = Num(5000)
    /\ "from" \notin DOMAIN call.variables
    /\ ret.received.entityLookup = Lookup(Num(2500), 1000)
    /\ ret.response.errors = Errors(<<LimitedNotice(1000, 2500)>>)

=============================================================================
